---- MODULE Spec2Model ----
(***************************************************************************)
(* Mask post-processing and candidate-selection pipeline of sam3_segmenter *)
(* (utils/mask_processing.py and the /segment/interactive handler of       *)
(* main.py).                                                               *)
(*                                                                         *)
(* A mask is modelled by its foreground: a set of pixels <<y, x>> (numpy   *)
(* order, 0-based), together with its shape where the shape matters.       *)
(* Scores, thresholds and areas are integers (scores in tenths).           *)
(* Candidate lists are sequences, 1-based; position k of the model is      *)
(* Python position k-1.                                                    *)
(***************************************************************************)
EXTENDS Integers, Sequences, FiniteSets, TLC

VARIABLES
    pc,              \* position in the handler / which function has been applied
    cfg,             \* settings snapshot, request fields and call arguments
    masks,           \* list of masks
    iou_scores,      \* list of confidence scores, parallel to masks
    bboxes,          \* list of boxes <<x1, y1, x2, y2>>, parallel to masks
    low_res_logits,  \* list of low-resolution logits (or None)
    result           \* what the function applied has returned

vars == <<pc, cfg, masks, iou_scores, bboxes, low_res_logits, result>>

None == "None"

\* an optional list: Python's None, or a list
NoList == [given |-> FALSE, list |-> <<>>]
Given(list) == [given |-> TRUE, list |-> list]

(***************************************************************************)
(* Bounds of the model.                                                    *)
(***************************************************************************)
\* image height and width of a request
ImgH == 3
ImgW == 3
\* number of pixels (in raster order) on which the masks given to
\* apply_non_overlapping_constraints may be foreground
NoPix == 2
\* longest candidate list given to a candidate-set function
MaxSetCand == 3
\* scores are drawn from 1..MaxScore
MaxScore == 3
\* boxes given to apply_nms_to_masks have x coordinates in 0..NmsMaxX
NmsMaxX == 2

Pixels(h, w) == {<<y, x>> : y \in 0 .. h - 1, x \in 0 .. w - 1}

ScoreVals == 1 .. MaxScore

Min(a, b) == IF a <= b THEN a ELSE b
Max(a, b) == IF a >= b THEN a ELSE b

(***************************************************************************)
(* Python's list.sort / sorted are stable: among equal keys the original   *)
(* order is kept, also with reverse=True.  StableOrder gives the indices   *)
(* of key in sorted order.                                                 *)
(***************************************************************************)
Before(key, i, j, descending) ==
    \/ IF descending THEN key[i] > key[j] ELSE key[i] < key[j]
    \/ key[i] = key[j] /\ i < j

StableOrder(key, descending) ==
    LET n == Len(key)
        rank(i) == 1 + Cardinality({j \in 1 .. n : Before(key, j, i, descending)})
    IN  [k \in 1 .. n |-> CHOOSE i \in 1 .. n : rank(i) = k]

(***************************************************************************)
(* apply_non_overlapping_constraints(masks, scores)                        *)
(***************************************************************************)
\* mutant: the pixels of a processed mask are not recorded as claimed
RECURSIVE ClaimInOrder_NoClaim(_, _, _, _, _)
ClaimInOrder_NoClaim(ms, order, k, claimed, res) ==
    IF k > Len(order) THEN res
    ELSE ClaimInOrder_NoClaim(ms, order, k + 1, claimed,
                              [res EXCEPT ![order[k]] = ms[order[k]] \ claimed])

\* mutant: results are stored in score order instead of the original order
RECURSIVE ClaimInOrder_ScoreOrder(_, _, _, _, _)
ClaimInOrder_ScoreOrder(ms, order, k, claimed, res) ==
    IF k > Len(order) THEN res
    ELSE ClaimInOrder_ScoreOrder(ms, order, k + 1, claimed \cup ms[order[k]],
                                 [res EXCEPT ![k] = ms[order[k]] \ claimed])

RECURSIVE ClaimInOrder(_, _, _, _, _)
ClaimInOrder(ms, order, k, claimed, res) ==
    IF k > Len(order) THEN res
    ELSE LET original_idx  == order[k]
             mask          == ms[original_idx]
             adjusted_mask == mask \ claimed
         IN  ClaimInOrder(ms, order, k + 1, claimed \cup mask,
                          [res EXCEPT ![original_idx] = adjusted_mask])

\* mutant: masks are processed in ascending score order
apply_non_overlapping_constraints_Ascending(ms, scores) ==
    IF Len(ms) <= 1 THEN ms
    ELSE ClaimInOrder(ms, StableOrder(scores, FALSE), 1, {},
                      [i \in 1 .. Len(ms) |-> None])

apply_non_overlapping_constraints(ms, scores) ==
    IF Len(ms) = 0 THEN ms
    ELSE IF Len(ms) = 1 THEN ms
    ELSE ClaimInOrder(ms, StableOrder(scores, TRUE), 1, {},
                      [i \in 1 .. Len(ms) |-> None])

(***************************************************************************)
(* SpecNonOverlap: apply_non_overlapping_constraints on every list of up   *)
(* to MaxSetCand same-shape masks with every assignment of scores.         *)
(***************************************************************************)
NoPixels == {p \in Pixels(ImgH, ImgW) : p[1] * ImgW + p[2] < NoPix}

InitNonOverlap ==
    /\ pc = "input"
    /\ cfg = None
    /\ \E n \in 0 .. MaxSetCand :
          /\ masks \in [1 .. n -> SUBSET NoPixels]
          /\ iou_scores \in [1 .. n -> ScoreVals]
    /\ bboxes = <<>>
    /\ low_res_logits = NoList
    /\ result = None

ApplyNonOverlap ==
    /\ pc = "input"
    /\ pc' = "non_overlap"
    /\ result' = apply_non_overlapping_constraints(masks, iou_scores)
    /\ UNCHANGED <<cfg, masks, iou_scores, bboxes, low_res_logits>>

NextNonOverlap == ApplyNonOverlap

SpecNonOverlap == InitNonOverlap /\ [][NextNonOverlap]_vars

\* C1: after apply_non_overlapping_constraints on two or more masks, every
\* pixel is foreground in at most one output mask.
C1_AtMostOneOwner ==
    (pc = "non_overlap" /\ Len(masks) >= 2) =>
        \A i, j \in 1 .. Len(result) : i # j => result[i] \cap result[j] = {}

C1_Witness ==
    /\ pc = "non_overlap"
    /\ Len(masks) >= 2
    /\ \E i, j \in 1 .. Len(masks) :
          i # j /\ masks[i] \cap masks[j] # {} /\ iou_scores[i] = iou_scores[j]

\* C9: the output has the input's length and order: output i holds only pixels
\* that were foreground in input mask i.
C9_SameOrderSubset ==
    pc = "non_overlap" =>
        /\ Len(result) = Len(masks)
        /\ \A i \in 1 .. Len(masks) : result[i] \subseteq masks[i]

C9_Witness ==
    /\ pc = "non_overlap"
    /\ Len(masks) >= 2
    /\ \E i \in 1 .. Len(masks) : result[i] # masks[i] /\ result[i] # {}
    /\ \E i, j \in 1 .. Len(masks) : i < j /\ iou_scores[i] < iou_scores[j]

\* C10: every pixel covered by some input mask is foreground in exactly one
\* output mask, the output of a highest-scoring input mask covering it.
C10_HighestScorerOwns ==
    (pc = "non_overlap" /\ Len(masks) >= 2) =>
        \A p \in UNION {masks[i] : i \in 1 .. Len(masks)} :
            \E i \in 1 .. Len(masks) :
                /\ p \in result[i]
                /\ \A j \in 1 .. Len(masks) :
                      /\ j # i => p \notin result[j]
                      /\ p \in masks[j] => iou_scores[j] <= iou_scores[i]

C10_Witness ==
    /\ pc = "non_overlap"
    /\ \E i, j \in 1 .. Len(masks) :
          /\ i < j
          /\ iou_scores[i] < iou_scores[j]
          /\ masks[i] \cap masks[j] # {}
          /\ masks[i] \cap masks[j] \subseteq result[j]

(***************************************************************************)
(* apply_nms_to_masks(masks, scores, boxes, iou_threshold)                 *)
(*                                                                         *)
(* torchvision.ops.batched_nms with every class id 0 is plain nms: the     *)
(* boxes are visited in descending score order and a box is kept unless    *)
(* its IoU with a box kept before it exceeds the threshold.  The IoU is    *)
(* inter / (area_i + area_j - inter) on the box coordinates; the threshold *)
(* is the rational t[1] / t[2], and "IoU > t" is compared by cross         *)
(* multiplication (two boxes of area 0 give 0/0, which is not > t).        *)
(***************************************************************************)
TorchvisionAvailable == TRUE

BoxArea(b) == (b[3] - b[1]) * (b[4] - b[2])

BoxInter(a, b) ==
    Max(0, Min(a[3], b[3]) - Max(a[1], b[1])) * Max(0, Min(a[4], b[4]) - Max(a[2], b[2]))

IoUExceeds(a, b, t) ==
    BoxInter(a, b) * t[2] > t[1] * (BoxArea(a) + BoxArea(b) - BoxInter(a, b))

\* mutant: a box is compared with the best-scoring kept box only
RECURSIVE NmsKeep_TopOnly(_, _, _, _, _)
NmsKeep_TopOnly(boxes, order, k, keep, t) ==
    IF k > Len(order) THEN keep
    ELSE IF keep # <<>> /\ IoUExceeds(boxes[keep[1]], boxes[order[k]], t)
         THEN NmsKeep_TopOnly(boxes, order, k + 1, keep, t)
         ELSE NmsKeep_TopOnly(boxes, order, k + 1, Append(keep, order[k]), t)

RECURSIVE NmsKeep(_, _, _, _, _)
NmsKeep(boxes, order, k, keep, t) ==
    IF k > Len(order) THEN keep
    ELSE IF \E m \in 1 .. Len(keep) : IoUExceeds(boxes[keep[m]], boxes[order[k]], t)
         THEN NmsKeep(boxes, order, k + 1, keep, t)
         ELSE NmsKeep(boxes, order, k + 1, Append(keep, order[k]), t)

batched_nms(boxes, scores, t) == NmsKeep(boxes, StableOrder(scores, TRUE), 1, <<>>, t)

Triple(ms, scores, boxes) == [masks |-> ms, scores |-> scores, boxes |-> boxes]

apply_nms_to_masks(ms, scores, boxes, iou_threshold) ==
    IF Len(ms) = 0 THEN Triple(ms, scores, boxes)
    ELSE IF Len(ms) = 1 THEN Triple(ms, scores, boxes)
    ELSE IF ~TorchvisionAvailable THEN Triple(ms, scores, boxes)
    ELSE LET keep_indices == batched_nms(boxes, scores, iou_threshold)
         IN  Triple([k \in 1 .. Len(keep_indices) |-> ms[keep_indices[k]]],
                    [k \in 1 .. Len(keep_indices) |-> scores[keep_indices[k]]],
                    [k \in 1 .. Len(keep_indices) |-> boxes[keep_indices[k]]])

(***************************************************************************)
(* SpecNms: apply_nms_to_masks on every list of up to MaxSetCand           *)
(* candidates.  The function never reads a mask, so mask k is the tag k.   *)
(***************************************************************************)
NmsBoxes == UNION {{<<x1, 0, x2, 1>> : x2 \in x1 .. NmsMaxX} : x1 \in 0 .. NmsMaxX}

\* thresholds 1/3 and 0.7 (the default of config.py), scores 0.8 and 0.9
NmsThresholds == {<<1, 3>>, <<7, 10>>}

NmsScores == {8, 9}

InitNms ==
    /\ pc = "input"
    /\ \E t \in NmsThresholds : cfg = [nms_iou_threshold |-> t]
    /\ \E n \in 0 .. MaxSetCand :
          /\ masks = [k \in 1 .. n |-> k]
          /\ iou_scores \in [1 .. n -> NmsScores]
          /\ bboxes \in [1 .. n -> NmsBoxes]
    /\ low_res_logits = NoList
    /\ result = None

ApplyNms ==
    /\ pc = "input"
    /\ pc' = "nms"
    /\ result' = apply_nms_to_masks(masks, iou_scores, bboxes, cfg.nms_iou_threshold)
    /\ UNCHANGED <<cfg, masks, iou_scores, bboxes, low_res_logits>>

NextNms == ApplyNms

SpecNms == InitNms /\ [][NextNms]_vars

\* C3: after apply_nms_to_masks with IoU threshold t, every pair of surviving
\* candidates has bounding-box IoU at most t.
C3_SurvivorsIoUAtMostT ==
    pc = "nms" =>
        \A a, b \in 1 .. Len(result.boxes) :
            a < b => ~IoUExceeds(result.boxes[a], result.boxes[b], cfg.nms_iou_threshold)

\* three candidates, one suppressed by the best one, two surviving that overlap
C3_Witness ==
    /\ pc = "nms"
    /\ Len(masks) = 3
    /\ Len(result.boxes) = 2
    /\ BoxInter(result.boxes[1], result.boxes[2]) > 0

(***************************************************************************)
(* Complexity-aware and area-based ranking.                                *)
(*                                                                         *)
(* The ranking functions read three things of a mask: its foreground area  *)
(* (np.sum), the value compute_mask_complexity gives it (cv2 contour       *)
(* perimeter / sqrt(area), here in tenths) and its number of connected     *)
(* components (cv2.connectedComponents).  A mask given to them is a record *)
(* of these three.  Scores are in hundredths, weights and bonus in tenths, *)
(* combined scores in thousandths.                                         *)
(*                                                                         *)
(* Every list element carries the index it had in the input list (src), a  *)
(* history field the functions never read.                                 *)
(***************************************************************************)
Tagged(list) == [k \in 1 .. Len(list) |-> [src |-> k, v |-> list[k]]]

\* [list[i] for i in sorted_indices]
Reorder(list, sorted_indices) ==
    [k \in 1 .. Len(sorted_indices) |-> list[sorted_indices[k]]]

compute_mask_complexity(mask) == mask.complexity

\* mutant: the confidence score is not scaled by (1 - complexity_weight)
compute_combined_score_FullIoU(iou_score, mask, complexity_weight, component_bonus) ==
    10 * iou_score + complexity_weight * Min(compute_mask_complexity(mask), 100)

compute_combined_score(iou_score, mask, complexity_weight, component_bonus) ==
    LET complexity            == compute_mask_complexity(mask)
        normalized_complexity == Min(complexity, 100)
        actual_components     == Max(0, mask.components)
        component_score       == 2 * component_bonus * Max(0, actual_components - 1)
        with_bonus            == IF component_bonus > 0
                                 THEN Min(normalized_complexity + component_score, 100)
                                 ELSE normalized_complexity
    IN  (10 - complexity_weight) * iou_score + complexity_weight * with_bonus

Quint(ms, ious, boxes, keys, logits) ==
    [masks |-> ms, scores |-> ious, boxes |-> boxes, keys |-> keys, logits |-> logits]

\* mutant: the logits are returned in their input order
sort_masks_by_combined_score_LogitsLeft(ms, ious, boxes, complexity_weight, logits, component_bonus) ==
    IF Len(ms) = 0 THEN Quint(ms, ious, boxes, <<>>, logits)
    ELSE LET combined_scores ==
                 [k \in 1 .. Len(ms) |->
                     compute_combined_score(ious[k].v, ms[k].v, complexity_weight,
                                            component_bonus)]
             sorted_indices == StableOrder(combined_scores, TRUE)
         IN  Quint(Reorder(ms, sorted_indices), Reorder(ious, sorted_indices),
                   Reorder(boxes, sorted_indices),
                   Reorder(combined_scores, sorted_indices),
                   IF logits.given /\ Len(logits.list) = Len(ms) THEN logits ELSE NoList)

sort_masks_by_combined_score(ms, ious, boxes, complexity_weight, logits, component_bonus) ==
    IF Len(ms) = 0 THEN Quint(ms, ious, boxes, <<>>, logits)
    ELSE LET combined_scores ==
                 [k \in 1 .. Len(ms) |->
                     compute_combined_score(ious[k].v, ms[k].v, complexity_weight,
                                            component_bonus)]
             sorted_indices == StableOrder(combined_scores, TRUE)
         IN  Quint(Reorder(ms, sorted_indices), Reorder(ious, sorted_indices),
                   Reorder(boxes, sorted_indices),
                   Reorder(combined_scores, sorted_indices),
                   IF logits.given /\ Len(logits.list) = Len(ms)
                   THEN Given(Reorder(logits.list, sorted_indices)) ELSE NoList)

\* mutant: the areas are returned in their input order
sort_masks_by_area_AreasLeft(ms, ious, boxes, logits, largest_first) ==
    IF Len(ms) = 0 THEN Quint(ms, ious, boxes, <<>>, logits)
    ELSE LET areas          == [k \in 1 .. Len(ms) |-> ms[k].v.area]
             sorted_indices == StableOrder(areas, largest_first)
         IN  Quint(Reorder(ms, sorted_indices), Reorder(ious, sorted_indices),
                   Reorder(boxes, sorted_indices), areas,
                   IF logits.given /\ Len(logits.list) = Len(ms)
                   THEN Given(Reorder(logits.list, sorted_indices)) ELSE NoList)

sort_masks_by_area(ms, ious, boxes, logits, largest_first) ==
    IF Len(ms) = 0 THEN Quint(ms, ious, boxes, <<>>, logits)
    ELSE LET areas          == [k \in 1 .. Len(ms) |-> ms[k].v.area]
             sorted_indices == StableOrder(areas, largest_first)
         IN  Quint(Reorder(ms, sorted_indices), Reorder(ious, sorted_indices),
                   Reorder(boxes, sorted_indices), Reorder(areas, sorted_indices),
                   IF logits.given /\ Len(logits.list) = Len(ms)
                   THEN Given(Reorder(logits.list, sorted_indices)) ELSE NoList)

(***************************************************************************)
(* SpecSort: both ranking functions on every list of up to MaxSetCand      *)
(* candidates, with logits absent, parallel to the masks, or one short.    *)
(***************************************************************************)
\* empty mask; a filled disc; a jagged one-piece outline; three separate pieces
SortMaskKinds ==
    { [area |-> 0, complexity |-> 0,   components |-> 0],
      [area |-> 9, complexity |-> 35,  components |-> 1],
      [area |-> 4, complexity |-> 80,  components |-> 1],
      [area |-> 4, complexity |-> 120, components |-> 3] }

SortScores == {85, 95}

SortLogits(n) ==
    {NoList, Given(Tagged([k \in 1 .. n |-> "logits"]))}
        \cup (IF n > 0 THEN {Given(Tagged([k \in 1 .. n - 1 |-> "logits"]))} ELSE {})

InitSort ==
    /\ pc = "input"
    /\ \E w \in {3, 5}, bonus \in {0, 5}, lf \in BOOLEAN :
          cfg = [complexity_weight |-> w, component_bonus |-> bonus, largest_first |-> lf]
    /\ \E n \in 0 .. MaxSetCand :
          /\ \E ms \in [1 .. n -> SortMaskKinds] : masks = Tagged(ms)
          /\ \E ss \in [1 .. n -> SortScores] : iou_scores = Tagged(ss)
          /\ bboxes = Tagged([k \in 1 .. n |-> <<0, 0, k, k>>])
          /\ low_res_logits \in SortLogits(n)
    /\ result = None

SortCombined ==
    /\ pc = "input"
    /\ pc' = "sorted_combined"
    /\ result' = sort_masks_by_combined_score(masks, iou_scores, bboxes,
                     cfg.complexity_weight, low_res_logits, cfg.component_bonus)
    /\ UNCHANGED <<cfg, masks, iou_scores, bboxes, low_res_logits>>

SortArea ==
    /\ pc = "input"
    /\ pc' = "sorted_area"
    /\ result' = sort_masks_by_area(masks, iou_scores, bboxes, low_res_logits,
                                    cfg.largest_first)
    /\ UNCHANGED <<cfg, masks, iou_scores, bboxes, low_res_logits>>

NextSort == SortCombined \/ SortArea

SpecSort == InitSort /\ [][NextSort]_vars

Sorted == pc \in {"sorted_combined", "sorted_area"}

LogitsParallel == low_res_logits.given /\ Len(low_res_logits.list) = Len(masks)

\* C5: both ranking functions apply one permutation to masks, scores, boxes
\* and (when a parallel list is supplied) logits: every input element appears
\* once in the output, and at each output position the mask, score, box and
\* logits come from the same input index.
C5_OnePermutation ==
    Sorted =>
        LET n == Len(masks) IN
        /\ Len(result.masks) = n /\ Len(result.scores) = n /\ Len(result.boxes) = n
        /\ {result.masks[k].src : k \in 1 .. n} = 1 .. n
        /\ \A k \in 1 .. n :
              /\ result.masks[k] = masks[result.masks[k].src]
              /\ result.scores[k] = iou_scores[result.masks[k].src]
              /\ result.boxes[k] = bboxes[result.masks[k].src]
        /\ LogitsParallel =>
              /\ result.logits.given
              /\ Len(result.logits.list) = n
              /\ \A k \in 1 .. n :
                    result.logits.list[k] = low_res_logits.list[result.masks[k].src]

C5_Witness ==
    /\ Sorted
    /\ LogitsParallel
    /\ Len(masks) >= 3
    /\ result.masks[1].src = 3
    /\ result.logits.list[2].src = 1

(***************************************************************************)
(* Mask primitives on one mask.  A binary mask of shape (h, w) is the set  *)
(* px of its foreground pixels <<y, x>>; uint8 255 / bool True is "in px". *)
(***************************************************************************)
OpenCVAvailable == TRUE

Area(px) == Cardinality(px)

\* 8- or 4-connectivity of two different pixels
Adjacent(p, q, connectivity) ==
    LET dy == IF p[1] >= q[1] THEN p[1] - q[1] ELSE q[1] - p[1]
        dx == IF p[2] >= q[2] THEN p[2] - q[2] ELSE q[2] - p[2]
    IN  IF connectivity = 8 THEN dy <= 1 /\ dx <= 1 /\ dy + dx > 0
        ELSE dy + dx = 1

RECURSIVE Grow(_, _, _)
Grow(S, comp, connectivity) ==
    LET next == comp \cup {q \in S \ comp : \E p \in comp : Adjacent(p, q, connectivity)}
    IN  IF next = comp THEN comp ELSE Grow(S, next, connectivity)

\* the connected component of S that holds pixel p
ComponentOf(S, p, connectivity) == Grow(S, {p}, connectivity)

\* first pixel of a non-empty set in raster order
FirstPixel(S) ==
    CHOOSE p \in S : \A q \in S : p[1] < q[1] \/ (p[1] = q[1] /\ p[2] <= q[2])

\* cv2.connectedComponentsWithStats: the foreground components, numbered from
\* label 1 in the raster order of their first pixels
RECURSIVE LabelComponents(_, _, _)
LabelComponents(S, connectivity, labelled) ==
    IF S = {} THEN labelled
    ELSE LET comp == ComponentOf(S, FirstPixel(S), connectivity)
         IN  LabelComponents(S \ comp, connectivity, Append(labelled, comp))

connectedComponents(px, connectivity) == LabelComponents(px, connectivity, <<>>)

\* mutant: the area comparison is dropped, the last label is kept
RECURSIVE LargestLabel_Last(_, _, _, _)
LargestLabel_Last(comps, label_id, largest_label, largest_area) ==
    IF label_id > Len(comps) THEN largest_label
    ELSE LargestLabel_Last(comps, label_id + 1, label_id, Area(comps[label_id]))

RECURSIVE LargestLabel(_, _, _, _)
LargestLabel(comps, label_id, largest_label, largest_area) ==
    IF label_id > Len(comps) THEN largest_label
    ELSE IF Area(comps[label_id]) > largest_area
         THEN LargestLabel(comps, label_id + 1, label_id, Area(comps[label_id]))
         ELSE LargestLabel(comps, label_id + 1, largest_label, largest_area)

keep_largest_component(px) ==
    IF ~OpenCVAvailable THEN px
    ELSE LET comps == connectedComponents(px, 8)
         IN  IF Len(comps) = 0 THEN px
             ELSE comps[LargestLabel(comps, 1, 1, 0)]

(***************************************************************************)
(* _fill_with_convex_hull: cv2.convexHull of the outer contour points and  *)
(* cv2.fillConvexPoly.  The hull of the contour points is the hull of the  *)
(* foreground pixels; the filled polygon is modelled as the pixels of the  *)
(* image inside or on that hull.  A pixel p is outside the hull exactly    *)
(* when a line through p and some foreground pixel a has the whole         *)
(* foreground on one side, what lies on the line being on a's side of p.   *)
(***************************************************************************)
Cross(p, a, s) == (a[2] - p[2]) * (s[1] - p[1]) - (a[1] - p[1]) * (s[2] - p[2])
Dot(p, a, s)   == (a[2] - p[2]) * (s[2] - p[2]) + (a[1] - p[1]) * (s[1] - p[1])

InHull(p, S) ==
    /\ S # {}
    /\ ~ \E a \in S : \A s \in S :
            \/ Cross(p, a, s) > 0
            \/ Cross(p, a, s) = 0 /\ Dot(p, a, s) > 0

fill_with_convex_hull(px, h, w) ==
    IF px = {} THEN px
    ELSE {p \in Pixels(h, w) : InHull(p, px)}

(***************************************************************************)
(* _fill_with_flood_fill.  cv2.floodFill(filled, flood_mask, seed, 128)    *)
(* with zero tolerances recolours to 128 the 4-connected region of pixels  *)
(* that have the seed pixel's value, whatever that value is, and marks the *)
(* region in flood_mask; a seed already marked in flood_mask fills         *)
(* nothing.  The image is the pair fg (value 255) and ext (value 128);     *)
(* flood_mask is non-zero exactly on ext.                                  *)
(***************************************************************************)
floodFill(img, h, w, seed) ==
    IF seed \in img.ext THEN img
    ELSE LET same   == IF seed \in img.fg THEN img.fg
                       ELSE Pixels(h, w) \ (img.fg \cup img.ext)
             region == ComponentOf(same, seed, 4)
         IN  [fg |-> img.fg \ region, ext |-> img.ext \cup region]

fill_with_flood_fill(px, h, w) ==
    LET f0 == [fg |-> px, ext |-> {}]
        f1 == floodFill(f0, h, w, <<0, 0>>)
        f2 == floodFill(f1, h, w, <<0, w - 1>>)
        f3 == floodFill(f2, h, w, <<h - 1, 0>>)
        f4 == floodFill(f3, h, w, <<h - 1, w - 1>>)
    IN  Pixels(h, w) \ f4.ext

fill_all_holes(px, h, w, use_convex_hull) ==
    IF ~OpenCVAvailable THEN px
    ELSE IF use_convex_hull THEN fill_with_convex_hull(px, h, w)
    ELSE fill_with_flood_fill(px, h, w)

(***************************************************************************)
(* SpecPrim: keep_largest_component and both variants of fill_all_holes on *)
(* every binary mask of the image shape.                                   *)
(***************************************************************************)
InitPrim ==
    /\ pc = "input"
    /\ cfg = [h |-> ImgH, w |-> ImgW]
    /\ \E px \in SUBSET Pixels(ImgH, ImgW) : masks = <<px>>
    /\ iou_scores = <<>>
    /\ bboxes = <<>>
    /\ low_res_logits = NoList
    /\ result = None

KeepLargest ==
    /\ pc = "input"
    /\ pc' = "keep_largest"
    /\ result' = keep_largest_component(masks[1])
    /\ UNCHANGED <<cfg, masks, iou_scores, bboxes, low_res_logits>>

FillAllHoles ==
    /\ pc = "input"
    /\ \E use_convex_hull \in BOOLEAN :
          /\ pc' = IF use_convex_hull THEN "fill_convex_hull" ELSE "fill_flood_fill"
          /\ result' = fill_all_holes(masks[1], cfg.h, cfg.w, use_convex_hull)
    /\ UNCHANGED <<cfg, masks, iou_scores, bboxes, low_res_logits>>

NextPrim == KeepLargest \/ FillAllHoles

SpecPrim == InitPrim /\ [][NextPrim]_vars

\* C8: keep_largest_component returns exactly one 8-connected component when the
\* input has foreground and none when it is empty; the component kept has
\* the maximum pixel count among the input's components.
C8_OneLargestComponent ==
    pc = "keep_largest" =>
        LET before == connectedComponents(masks[1], 8)
            after  == connectedComponents(result, 8)
        IN  /\ Len(after) = (IF masks[1] = {} THEN 0 ELSE 1)
            /\ \A k \in 1 .. Len(before) : Area(result) >= Area(before[k])
            /\ masks[1] # {} => \E k \in 1 .. Len(before) : result = before[k]

\* two components of different sizes, the smaller one first in label order
C8_Witness ==
    /\ pc = "keep_largest"
    /\ Len(connectedComponents(masks[1], 8)) >= 2
    /\ Area(connectedComponents(masks[1], 8)[1]) < Area(result)

\* C4: fill_all_holes never decreases the foreground pixel count, with the
\* convex-hull variant and with the flood-fill variant.
C4_FillNeverShrinks ==
    pc \in {"fill_convex_hull", "fill_flood_fill"} => Area(result) >= Area(masks[1])

\* the part of C4 that holds: the convex-hull variant keeps every foreground
\* pixel, so it never decreases the count
C4_HullNeverShrinks ==
    pc = "fill_convex_hull" => masks[1] \subseteq result

C4_HullWitness ==
    /\ pc = "fill_convex_hull"
    /\ Area(result) > Area(masks[1])

(***************************************************************************)
(* Morphology.  cv2.getStructuringElement(cv2.MORPH_ELLIPSE, (k, k)) as    *)
(* offsets <<dy, dx>> from the anchor (the centre k / 2): row dy holds the *)
(* columns within round(c * sqrt(r*r - dy*dy) / r) of the centre, clipped  *)
(* to the k columns.  cv2.dilate takes the maximum and cv2.erode the       *)
(* minimum over the kernel; with the default border value a pixel outside  *)
(* the image never wins either.  MORPH_CLOSE is dilate, then erode.        *)
(***************************************************************************)
EllipseHalfWidth(r, c, dy) ==
    IF r = 0 THEN 0
    ELSE LET v2 == 4 * c * c * (r * r - dy * dy)
         IN  CHOOSE d \in 0 .. c + 1 :
                 /\ d = 0 \/ (2 * d - 1) * (2 * d - 1) * r * r <= v2
                 /\ v2 < (2 * d + 1) * (2 * d + 1) * r * r

getStructuringElement(k) ==
    LET r == k \div 2
        c == k \div 2
    IN  UNION { { <<i - r, j - c>> :
                    j \in Max(c - EllipseHalfWidth(r, c, i - r), 0)
                          .. Min(c + EllipseHalfWidth(r, c, i - r) + 1, k) - 1 }
                : i \in 0 .. k - 1 }

dilate(px, h, w, kernel) ==
    {p \in Pixels(h, w) : \E o \in kernel : <<p[1] + o[1], p[2] + o[2]>> \in px}

erode(px, h, w, kernel) ==
    {p \in Pixels(h, w) :
        \A o \in kernel :
            <<p[1] + o[1], p[2] + o[2]>> \in Pixels(h, w) =>
                <<p[1] + o[1], p[2] + o[2]>> \in px}

morph_close(px, h, w, k) ==
    LET kernel == getStructuringElement(k)
    IN  erode(dilate(px, h, w, kernel), h, w, kernel)

morph_open(px, h, w, k) ==
    LET kernel == getStructuringElement(k)
    IN  dilate(erode(px, h, w, kernel), h, w, kernel)

(***************************************************************************)
(* Boxes are <<x1, y1, x2, y2>> with integer coordinates (int(v) of the    *)
(* request's floats); NoBox is Python's None.  A ratio is a pair           *)
(* <<numerator, denominator>>.                                             *)
(***************************************************************************)
NoBox == <<>>

\* int(n * ratio): truncation toward zero
IntOfProduct(n, ratio) ==
    IF n >= 0 THEN (n * ratio[1]) \div ratio[2]
    ELSE -(((-n) * ratio[1]) \div ratio[2])

\* the pixels of rows y1 .. y2 - 1 and columns x1 .. x2 - 1
Rectangle(x1, y1, x2, y2) == {<<y, x>> : y \in y1 .. y2 - 1, x \in x1 .. x2 - 1}

\* A slice bound on an axis of length n: numpy counts a negative bound from
\* the end of the axis, then clips it to 0 .. n.
SliceIndex(i, n) == IF i < 0 THEN Max(0, i + n) ELSE Min(i, n)

\* a[y1:y2, x1:x2] = 255 on a = zeros((h, w))
SliceAssign(h, w, y1, y2, x1, x2) ==
    Rectangle(SliceIndex(x1, w), SliceIndex(y1, h), SliceIndex(x2, w), SliceIndex(y2, h))

fill_with_box(h, w, box, margin_ratio) ==
    LET margin_x == IntOfProduct(box[3] - box[1], margin_ratio)
        margin_y == IntOfProduct(box[4] - box[2], margin_ratio)
        x1 == Max(0, box[1] - margin_x)
        y1 == Max(0, box[2] - margin_y)
        x2 == Min(w, box[3] + margin_x)
        y2 == Min(h, box[4] + margin_y)
    IN  SliceAssign(h, w, y1, y2, x1, x2)

RECURSIVE CloseTimes(_, _, _, _, _)
CloseTimes(px, h, w, k, iterations) ==
    IF iterations = 0 THEN px
    ELSE CloseTimes(morph_close(px, h, w, k), h, w, k, iterations - 1)

fill_with_morphological_closing(px, h, w, kernel_size, iterations) ==
    fill_with_flood_fill(CloseTimes(px, h, w, kernel_size, iterations), h, w)

(***************************************************************************)
(* postprocess_mask_for_drawings(mask, keep_largest, fill_holes,           *)
(* apply_morphology, morphology_kernel, min_area_ratio, fill_method, box,  *)
(* morphology_fill_kernel); c holds the keyword arguments.                 *)
(***************************************************************************)
BoxFillMargin == <<2, 100>>
MorphFillIterations == 3

\* mutant: the minimum-area guard is left out
postprocess_mask_for_drawings_NoGuard(px, h, w, c) ==
    IF px = {} THEN px
    ELSE LET filled ==
                 IF c.fill_holes
                 THEN IF c.fill_method = "box_fill" /\ c.box # NoBox
                      THEN fill_with_box(h, w, c.box, BoxFillMargin)
                      ELSE IF c.fill_method = "morphological"
                      THEN fill_with_morphological_closing(px, h, w,
                               c.morphology_fill_kernel, MorphFillIterations)
                      ELSE fill_all_holes(px, h, w, TRUE)
                 ELSE px
             largest ==
                 IF c.keep_largest /\ c.fill_method # "box_fill"
                 THEN keep_largest_component(filled)
                 ELSE filled
         IN  IF c.apply_morphology /\ c.morphology_kernel > 0
             THEN morph_close(largest, h, w, c.morphology_kernel)
             ELSE largest

postprocess_mask_for_drawings(px, h, w, c) ==
    IF ~OpenCVAvailable THEN px
    ELSE IF px = {} THEN px
    ELSE LET total_pixels == h * w
             filled ==
                 IF c.fill_holes
                 THEN IF c.fill_method = "box_fill" /\ c.box # NoBox
                      THEN fill_with_box(h, w, c.box, BoxFillMargin)
                      ELSE IF c.fill_method = "morphological"
                      THEN fill_with_morphological_closing(px, h, w,
                               c.morphology_fill_kernel, MorphFillIterations)
                      ELSE fill_all_holes(px, h, w, TRUE)
                 ELSE px
             largest ==
                 IF c.keep_largest /\ c.fill_method # "box_fill"
                 THEN keep_largest_component(filled)
                 ELSE filled
             processed ==
                 IF c.apply_morphology /\ c.morphology_kernel > 0
                 THEN morph_close(largest, h, w, c.morphology_kernel)
                 ELSE largest
         IN  IF Area(processed) * c.min_area_ratio[2] < total_pixels * c.min_area_ratio[1]
             THEN {}
             ELSE processed

(***************************************************************************)
(* SpecDrawings: postprocess_mask_for_drawings applied to a mask, and      *)
(* again to its own output, under one configuration.                       *)
(***************************************************************************)
FillMethods == {"box_fill", "morphological", "convex_hull"}

\* no prompt box, or a box over the top-left 2 x 2 pixels
DrawingBoxes == {NoBox, <<0, 0, 2, 2>>}

\* the default 0.001, and a quarter of the image
MinAreaRatios == {<<1, 1000>>, <<1, 4>>}

DrawingConfigs ==
    [ keep_largest : BOOLEAN, fill_holes : BOOLEAN, apply_morphology : BOOLEAN,
      morphology_kernel : {3}, min_area_ratio : MinAreaRatios,
      fill_method : FillMethods, box : DrawingBoxes,
      morphology_fill_kernel : {1, 3} ]

InitDrawings ==
    /\ pc = "input"
    /\ cfg \in DrawingConfigs
    /\ \E px \in SUBSET Pixels(ImgH, ImgW) : masks = <<px>>
    /\ iou_scores = <<>>
    /\ bboxes = <<>>
    /\ low_res_logits = NoList
    /\ result = <<>>

\* one call; the second call is given the first call's return value
PostprocessForDrawings ==
    /\ pc \in {"input", "once"}
    /\ pc' = IF pc = "input" THEN "once" ELSE "twice"
    /\ result' = Append(result,
                    postprocess_mask_for_drawings(
                        IF pc = "input" THEN masks[1] ELSE result[1],
                        ImgH, ImgW, cfg))
    /\ UNCHANGED <<cfg, masks, iou_scores, bboxes, low_res_logits>>

NextDrawings == PostprocessForDrawings

SpecDrawings == InitDrawings /\ [][NextDrawings]_vars

\* C7: postprocess_mask_for_drawings is idempotent: applied to its own output
\* under the same configuration it returns that output.
C7_Idempotent ==
    pc = "twice" => result[2] = result[1]

(***************************************************************************)
(* Generic cleanup, box constraint and resize.                             *)
(***************************************************************************)
_remove_small_components(px, min_area) ==
    LET comps == connectedComponents(px, 8)
    IN  UNION {comps[label_id] : label_id \in {k \in 1 .. Len(comps) : Area(comps[k]) >= min_area}}

\* mutant: a background component that touches the border is not a hole
_fill_small_holes_Interior(px, h, w, max_hole_area) ==
    LET holes == connectedComponents(Pixels(h, w) \ px, 8)
    IN  px \cup UNION {holes[label_id] :
                         label_id \in {k \in 1 .. Len(holes) :
                             /\ Area(holes[k]) <= max_hole_area
                             /\ \A p \in holes[k] : p[1] \in 1 .. h - 2 /\ p[2] \in 1 .. w - 2}}

\* the holes are the 8-connected components of the inverted mask
_fill_small_holes(px, h, w, max_hole_area) ==
    LET holes == connectedComponents(Pixels(h, w) \ px, 8)
    IN  px \cup UNION {holes[label_id] :
                         label_id \in {k \in 1 .. Len(holes) : Area(holes[k]) <= max_hole_area}}

_apply_morphology(px, h, w, kernel_size) ==
    morph_close(morph_open(px, h, w, kernel_size), h, w, kernel_size)

\* postprocess_mask(mask, min_component_area, fill_holes, max_hole_area,
\* apply_morphology, kernel_size) on a two-dimensional mask of positive size
postprocess_mask(px, h, w, c) ==
    IF h < c.kernel_size \/ w < c.kernel_size THEN px
    ELSE IF ~OpenCVAvailable THEN px
    ELSE LET sprinkles_removed ==
                 IF c.min_component_area > 0
                 THEN _remove_small_components(px, c.min_component_area)
                 ELSE px
             holes_filled ==
                 IF c.fill_holes /\ c.max_hole_area > 0
                 THEN _fill_small_holes(sprinkles_removed, h, w, c.max_hole_area)
                 ELSE sprinkles_removed
         IN  IF c.apply_morphology /\ c.kernel_size > 0
             THEN _apply_morphology(holes_filled, h, w, c.kernel_size)
             ELSE holes_filled

constrain_mask_to_box(px, h, w, box, margin_ratio) ==
    LET margin_x == IntOfProduct(box[3] - box[1], margin_ratio)
        margin_y == IntOfProduct(box[4] - box[2], margin_ratio)
        y_start  == Max(0, box[2] - margin_y)
        y_end    == Min(h, box[4] + margin_y)
        x_start  == Max(0, box[1] - margin_x)
        x_end    == Min(w, box[3] + margin_x)
    IN  px \cap SliceAssign(h, w, y_start, y_end, x_start, x_end)

(***************************************************************************)
(* A pipeline mask is a record: shape (h, w), foreground px, dtype "bool"  *)
(* or "float32" (values 0.0 / 1.0), and complexity, the value              *)
(* compute_mask_complexity measures on it (a perimeter, not derived from   *)
(* px here).  src, raw, model_score and model_mask are history: the index *)
(* of the candidate in the model's output, the shape the model gave the    *)
(* mask, the confidence score the model gave the candidate and the mask    *)
(* as the model returned it.                                               *)
(*                                                                         *)
(* PIL resize with NEAREST reads, for output pixel (y, x), input pixel     *)
(* (floor((y + 0.5) * h / img_h), floor((x + 0.5) * w / img_w)).  A bool   *)
(* mask is resized as 0 / 255 and thresholded at 127; any other dtype is   *)
(* resized as it is, and its values 0.0 / 1.0 are all below 127.           *)
(***************************************************************************)
\* mutant: the mask is left in its own shape
resize_NEAREST_Skipped(mask, img_height, img_width) == mask

resize_NEAREST(mask, img_height, img_width) ==
    [mask EXCEPT
        !.h = img_height, !.w = img_width, !.dtype = "bool",
        !.px = IF mask.dtype = "bool"
               THEN {p \in Pixels(img_height, img_width) :
                       << ((2 * p[1] + 1) * mask.h) \div (2 * img_height),
                          ((2 * p[2] + 1) * mask.w) \div (2 * img_width) >> \in mask.px}
               ELSE {}]

\* (xs.min(), ys.min(), xs.max(), ys.max()) of the foreground, else zeros
BBoxOf(px) ==
    IF px = {} THEN <<0, 0, 0, 0>>
    ELSE LET ys == {p[1] : p \in px}
             xs == {p[2] : p \in px}
         IN  << CHOOSE x \in xs : \A o \in xs : x <= o,
                CHOOSE y \in ys : \A o \in ys : y <= o,
                CHOOSE x \in xs : \A o \in xs : x >= o,
                CHOOSE y \in ys : \A o \in ys : y >= o >>

(***************************************************************************)
(* The filters of the candidate lists.                                     *)
(***************************************************************************)
\* the indices k with flags[k], in increasing order
RECURSIVE KeptIndices(_, _, _)
KeptIndices(flags, k, kept) ==
    IF k > Len(flags) THEN kept
    ELSE KeptIndices(flags, k + 1, IF flags[k] THEN Append(kept, k) ELSE kept)

\* mutant: a score equal to the minimum is dropped
filter_masks_by_iou_Strict(ms, scores, boxes, min_iou) ==
    IF Len(ms) = 0 THEN Triple(ms, scores, boxes)
    ELSE LET kept == KeptIndices([k \in 1 .. Len(ms) |-> scores[k] > min_iou], 1, <<>>)
         IN  Triple(Reorder(ms, kept), Reorder(scores, kept), Reorder(boxes, kept))

filter_masks_by_iou(ms, scores, boxes, min_iou) ==
    IF Len(ms) = 0 THEN Triple(ms, scores, boxes)
    ELSE LET kept == KeptIndices([k \in 1 .. Len(ms) |-> scores[k] >= min_iou], 1, <<>>)
         IN  Triple(Reorder(ms, kept), Reorder(scores, kept), Reorder(boxes, kept))

\* mutant: the right and bottom borders are one pixel further out
is_mask_near_edge_OffByOne(mask, h, w, edge_tolerance) ==
    IF mask.px = {} THEN FALSE
    ELSE LET b == BBoxOf(mask.px)
         IN  \/ b[1] <= edge_tolerance
             \/ b[3] >= w - edge_tolerance
             \/ b[2] <= edge_tolerance
             \/ b[4] >= h - edge_tolerance

is_mask_near_edge(mask, h, w, edge_tolerance) ==
    IF mask.px = {} THEN FALSE
    ELSE LET b == BBoxOf(mask.px)
         IN  \/ b[1] <= edge_tolerance
             \/ b[3] >= w - edge_tolerance - 1
             \/ b[2] <= edge_tolerance
             \/ b[4] >= h - edge_tolerance - 1

filter_edge_masks(ms, scores, boxes, h, w, edge_tolerance) ==
    IF Len(ms) = 0 THEN Triple(ms, scores, boxes)
    ELSE LET kept == KeptIndices(
                         [k \in 1 .. Len(ms) |-> ~is_mask_near_edge(ms[k], h, w, edge_tolerance)],
                         1, <<>>)
         IN  Triple(Reorder(ms, kept), Reorder(scores, kept), Reorder(boxes, kept))

(***************************************************************************)
(* Spec: the post-processing pipeline of segment_interactive for one       *)
(* request with at most one prompt box, from the model's output (parallel  *)
(* lists masks, iou_scores, bboxes, low_res_logits) to the response.       *)
(* Scores are in hundredths, complexity_weight in tenths, as in            *)
(* compute_combined_score above.  cfg holds the settings, the request's    *)
(* multimask_output and box, and the image size.  final_bboxes is kept in  *)
(* bboxes, which the code does not read again once it is computed;         *)
(* result is mask_candidates.                                              *)
(***************************************************************************)
MaxCand == 2

\* what the model may return for one candidate, with its confidence score:
\* an image-shaped bool mask, an image-shaped float mask, and two masks of
\* other shapes
RawCandidates ==
    { [mask |-> [h |-> ImgH, w |-> ImgW, px |-> Rectangle(0, 0, 2, 2),
                 dtype |-> "bool", complexity |-> 35], score |-> 95],
      [mask |-> [h |-> ImgH, w |-> ImgW, px |-> {<<1, 1>>},
                 dtype |-> "float32", complexity |-> 80], score |-> 40],
      [mask |-> [h |-> ImgH - 1, w |-> ImgW + 1, px |-> {<<0, 0>>, <<1, 2>>, <<1, 3>>},
                 dtype |-> "bool", complexity |-> 80], score |-> 85],
      [mask |-> [h |-> ImgH - 1, w |-> ImgW - 1, px |-> {<<0, 0>>},
                 dtype |-> "float32", complexity |-> 35], score |-> 85] }

\* the switches, without the combinations that differ only in a switch the
\* code never reads: enable_box_constraint without a prompt box, and
\* enable_complexity_scoring outside precision mode
PipelineSwitches ==
    { f \in [ enable_iou_filtering : BOOLEAN, enable_nms : BOOLEAN,
              enable_edge_rejection : BOOLEAN, enable_non_overlapping : BOOLEAN,
              multimask_output : BOOLEAN, enable_precision_mode : BOOLEAN,
              enable_complexity_scoring : BOOLEAN, enable_drawing_mode : BOOLEAN,
              enable_mask_postprocessing : BOOLEAN, enable_box_constraint : BOOLEAN,
              box : {NoBox, <<0, 0, 2, 2>>} ] :
        /\ f.box = NoBox => ~f.enable_box_constraint
        /\ ~f.enable_precision_mode => f.enable_complexity_scoring
        /\ f.multimask_output => (f.enable_nms <=> f.enable_non_overlapping) }

\* the other settings, scaled to the image
PipelineSettings ==
    [ img_height |-> ImgH, img_width |-> ImgW,
      min_iou_score |-> 50, nms_iou_threshold |-> <<7, 10>>,
      edge_tolerance_pixels |-> 0,
      drawing_keep_largest_only |-> TRUE, drawing_fill_all_holes |-> TRUE,
      drawing_min_area_ratio |-> <<1, 1000>>, drawing_fill_method |-> "box_fill",
      drawing_morphology_kernel |-> 3,
      mask_min_component_area |-> 2, mask_fill_holes |-> TRUE,
      mask_max_hole_area |-> 1, mask_apply_morphology |-> TRUE,
      mask_morphology_kernel_size |-> 3,
      box_constraint_margin |-> <<15, 100>>, complexity_weight |-> 5 ]

Init ==
    /\ pc = "raw"
    /\ \E f \in PipelineSwitches : cfg = f @@ PipelineSettings
    /\ \E n \in 0 .. MaxCand : \E cands \in [1 .. n -> RawCandidates] :
          /\ masks = [k \in 1 .. n |->
                        [src |-> k, raw |-> <<cands[k].mask.h, cands[k].mask.w>>,
                         model_score |-> cands[k].score, model_mask |-> cands[k].mask]
                            @@ cands[k].mask]
          /\ iou_scores = [k \in 1 .. n |-> cands[k].score]
          /\ bboxes = [k \in 1 .. n |-> BBoxOf(cands[k].mask.px)]
          /\ low_res_logits = Given(Tagged([k \in 1 .. n |-> "logits"]))
    /\ result = <<>>

\* Step 1: IoU filtering
IoUFilter ==
    /\ pc = "raw"
    /\ pc' = "iou_filtered"
    /\ IF cfg.enable_iou_filtering /\ Len(masks) > 0
       THEN LET r == filter_masks_by_iou(masks, iou_scores, bboxes, cfg.min_iou_score)
            IN  /\ masks' = r.masks
                /\ iou_scores' = r.scores
                /\ bboxes' = r.boxes
       ELSE UNCHANGED <<masks, iou_scores, bboxes>>
    /\ UNCHANGED <<cfg, low_res_logits, result>>

\* mutant: NMS runs for a multimask request too
NmsStageRuns_Multimask(c, n) == c.enable_nms /\ n > 1

\* the condition of Step 2 on the settings, the request and len(masks)
NmsStageRuns(c, n) == c.enable_nms /\ n > 1 /\ ~c.multimask_output

\* mutant: edge rejection runs in the place of NMS
Nms_EdgeRejectionFirst ==
    /\ pc = "iou_filtered"
    /\ pc' = "nms_done"
    /\ IF cfg.enable_edge_rejection /\ Len(masks) > 0
       THEN LET r == filter_edge_masks(masks, iou_scores, bboxes, cfg.img_height,
                                       cfg.img_width, cfg.edge_tolerance_pixels)
            IN  /\ masks' = r.masks
                /\ iou_scores' = r.scores
                /\ bboxes' = r.boxes
       ELSE UNCHANGED <<masks, iou_scores, bboxes>>
    /\ UNCHANGED <<cfg, low_res_logits, result>>

\* Step 2: NMS
Nms ==
    /\ pc = "iou_filtered"
    /\ pc' = "nms_done"
    /\ IF NmsStageRuns(cfg, Len(masks))
       THEN LET r == apply_nms_to_masks(masks, iou_scores, bboxes, cfg.nms_iou_threshold)
            IN  /\ masks' = r.masks
                /\ iou_scores' = r.scores
                /\ bboxes' = r.boxes
       ELSE UNCHANGED <<masks, iou_scores, bboxes>>
    /\ UNCHANGED <<cfg, low_res_logits, result>>

\* Step 3: edge rejection
EdgeRejection ==
    /\ pc = "nms_done"
    /\ pc' = "edge_done"
    /\ IF cfg.enable_edge_rejection /\ Len(masks) > 0
       THEN LET r == filter_edge_masks(masks, iou_scores, bboxes, cfg.img_height,
                                       cfg.img_width, cfg.edge_tolerance_pixels)
            IN  /\ masks' = r.masks
                /\ iou_scores' = r.scores
                /\ bboxes' = r.boxes
       ELSE UNCHANGED <<masks, iou_scores, bboxes>>
    /\ UNCHANGED <<cfg, low_res_logits, result>>

\* the keyword arguments the loop passes to the two cleanup functions
DrawingArguments(c) ==
    [ keep_largest |-> c.drawing_keep_largest_only,
      fill_holes |-> c.drawing_fill_all_holes,
      apply_morphology |-> c.mask_apply_morphology,
      morphology_kernel |-> c.mask_morphology_kernel_size,
      min_area_ratio |-> c.drawing_min_area_ratio,
      fill_method |-> c.drawing_fill_method,
      box |-> c.box,
      morphology_fill_kernel |-> c.drawing_morphology_kernel ]

GenericArguments(c) ==
    [ min_component_area |-> c.mask_min_component_area,
      fill_holes |-> c.mask_fill_holes,
      max_hole_area |-> c.mask_max_hole_area,
      apply_morphology |-> c.mask_apply_morphology,
      kernel_size |-> c.mask_morphology_kernel_size ]

\* drawing-mode cleanup, else generic cleanup, none of them in precision mode.
\* An all-background mask comes back from postprocess_mask_for_drawings as it
\* went in; every other cleanup result is a bool array.
\* mutant: the generic cleanup does not look at precision mode
CleanMask_GenericInPrecisionMode(mask, c) ==
    IF c.enable_drawing_mode /\ ~c.enable_precision_mode
    THEN [mask EXCEPT
            !.px = postprocess_mask_for_drawings(mask.px, mask.h, mask.w,
                                                 DrawingArguments(c)),
            !.dtype = IF mask.px = {} THEN mask.dtype ELSE "bool"]
    ELSE IF c.enable_mask_postprocessing
    THEN [mask EXCEPT
            !.px = postprocess_mask(mask.px, mask.h, mask.w, GenericArguments(c)),
            !.dtype = "bool"]
    ELSE mask

CleanMask(mask, c) ==
    IF c.enable_drawing_mode /\ ~c.enable_precision_mode
    THEN [mask EXCEPT
            !.px = postprocess_mask_for_drawings(mask.px, mask.h, mask.w,
                                                 DrawingArguments(c)),
            !.dtype = IF mask.px = {} THEN mask.dtype ELSE "bool"]
    ELSE IF c.enable_mask_postprocessing /\ ~c.enable_precision_mode
    THEN [mask EXCEPT
            !.px = postprocess_mask(mask.px, mask.h, mask.w, GenericArguments(c)),
            !.dtype = "bool"]
    ELSE mask

ConstrainMask(mask, c) ==
    IF c.box # NoBox /\ c.enable_box_constraint
    THEN [mask EXCEPT
            !.px = constrain_mask_to_box(mask.px, mask.h, mask.w, c.box,
                                         c.box_constraint_margin),
            !.dtype = "bool"]
    ELSE mask

ResizeMask(mask, c) ==
    IF <<mask.h, mask.w>> # <<c.img_height, c.img_width>>
    THEN resize_NEAREST(mask, c.img_height, c.img_width)
    ELSE mask

\* the body of the per-mask loop: cleanup, box constraint, resize
ProcessMask(mask, c) == ResizeMask(ConstrainMask(CleanMask(mask, c), c), c)

\* mutant: the loop stops before the last candidate
PerMask_LastLeft ==
    /\ pc = "edge_done"
    /\ pc' = "per_mask_done"
    /\ masks' = [i \in 1 .. Len(masks) |->
                    IF i < Len(masks) THEN ProcessMask(masks[i], cfg) ELSE masks[i]]
    /\ UNCHANGED <<cfg, iou_scores, bboxes, low_res_logits, result>>

\* Step 4: per-mask processing of every candidate
PerMask ==
    /\ pc = "edge_done"
    /\ pc' = "per_mask_done"
    /\ masks' = [i \in 1 .. Len(masks) |-> ProcessMask(masks[i], cfg)]
    /\ UNCHANGED <<cfg, iou_scores, bboxes, low_res_logits, result>>

\* Step 5: non-overlapping constraints
NonOverlap ==
    /\ pc = "per_mask_done"
    /\ pc' = "non_overlap_done"
    /\ IF cfg.enable_non_overlapping /\ Len(masks) > 1 /\ ~cfg.multimask_output
       THEN LET r == apply_non_overlapping_constraints(
                         [i \in 1 .. Len(masks) |-> masks[i].px], iou_scores)
            IN  masks' = [i \in 1 .. Len(masks) |->
                            [masks[i] EXCEPT !.px = r[i], !.dtype = "bool"]]
       ELSE UNCHANGED masks
    /\ UNCHANGED <<cfg, iou_scores, bboxes, low_res_logits, result>>

\* mutant: the boxes of the model's raw masks are kept
RecalculateBboxes_Stale ==
    /\ pc = "non_overlap_done"
    /\ pc' = "bboxes_done"
    /\ UNCHANGED <<cfg, masks, iou_scores, bboxes, low_res_logits, result>>

\* the bounding boxes are recomputed from the final masks
RecalculateBboxes ==
    /\ pc = "non_overlap_done"
    /\ pc' = "bboxes_done"
    /\ bboxes' = [i \in 1 .. Len(masks) |-> BBoxOf(masks[i].px)]
    /\ UNCHANGED <<cfg, masks, iou_scores, low_res_logits, result>>

\* what compute_combined_score reads from a mask when component_bonus is 0.0
Measured(mask) == [complexity |-> mask.complexity, mask |-> mask]

\* mutant: the combined scores are kept as the candidates' scores
ComplexitySort_CombinedScores ==
    /\ pc = "bboxes_done"
    /\ pc' = "ranked"
    /\ IF cfg.enable_precision_mode /\ cfg.enable_complexity_scoring /\ Len(masks) > 1
       THEN LET r == sort_masks_by_combined_score(
                         Tagged([i \in 1 .. Len(masks) |-> Measured(masks[i])]),
                         Tagged(iou_scores), Tagged(bboxes),
                         cfg.complexity_weight, low_res_logits, 0)
            IN  /\ masks' = [i \in 1 .. Len(r.masks) |-> r.masks[i].v.mask]
                /\ iou_scores' = r.keys
                /\ bboxes' = [i \in 1 .. Len(r.boxes) |-> r.boxes[i].v]
                /\ low_res_logits' = IF r.logits.given THEN r.logits ELSE low_res_logits
       ELSE UNCHANGED <<masks, iou_scores, bboxes, low_res_logits>>
    /\ UNCHANGED <<cfg, result>>

\* complexity-aware sorting; component_bonus is left at its default 0.0
ComplexitySort ==
    /\ pc = "bboxes_done"
    /\ pc' = "ranked"
    /\ IF cfg.enable_precision_mode /\ cfg.enable_complexity_scoring /\ Len(masks) > 1
       THEN LET r == sort_masks_by_combined_score(
                         Tagged([i \in 1 .. Len(masks) |-> Measured(masks[i])]),
                         Tagged(iou_scores), Tagged(bboxes),
                         cfg.complexity_weight, low_res_logits, 0)
            IN  /\ masks' = [i \in 1 .. Len(r.masks) |-> r.masks[i].v.mask]
                /\ iou_scores' = [i \in 1 .. Len(r.scores) |-> r.scores[i].v]
                /\ bboxes' = [i \in 1 .. Len(r.boxes) |-> r.boxes[i].v]
                /\ low_res_logits' = IF r.logits.given THEN r.logits ELSE low_res_logits
       ELSE UNCHANGED <<masks, iou_scores, bboxes, low_res_logits>>
    /\ UNCHANGED <<cfg, result>>

NoLogits == [src |-> 0, v |-> "None"]

\* one MaskCandidate per position of zip(masks, iou_scores, final_bboxes);
\* the PNG holds the shape and the foreground of the mask
BuildResponse ==
    /\ pc = "ranked"
    /\ pc' = "built"
    /\ result' = [i \in 1 .. Min(Len(masks), Min(Len(iou_scores), Len(bboxes))) |->
                    [ mask_base64 |-> [src |-> masks[i].src, h |-> masks[i].h,
                                       w |-> masks[i].w, px |-> masks[i].px],
                      iou_score |-> iou_scores[i],
                      bbox |-> bboxes[i],
                      low_res_logits_base64 |->
                          IF i <= Len(low_res_logits.list)
                          THEN low_res_logits.list[i] ELSE NoLogits ]]
    /\ UNCHANGED <<cfg, masks, iou_scores, bboxes, low_res_logits>>

\* mask_candidates.sort(key=iou_score, reverse=True) unless ranked above
SortCandidates ==
    /\ pc = "built"
    /\ pc' = "done"
    /\ IF ~(cfg.enable_precision_mode /\ cfg.enable_complexity_scoring)
       THEN result' = Reorder(result,
                          StableOrder([i \in 1 .. Len(result) |-> result[i].iou_score], TRUE))
       ELSE UNCHANGED result
    /\ UNCHANGED <<cfg, masks, iou_scores, bboxes, low_res_logits>>

Next ==
    \/ IoUFilter
    \/ Nms
    \/ EdgeRejection
    \/ PerMask
    \/ NonOverlap
    \/ RecalculateBboxes
    \/ ComplexitySort
    \/ BuildResponse
    \/ SortCandidates

Spec == Init /\ [][Next]_vars

\* C2: every candidate of the response carries the logits the model produced
\* for that candidate's own mask, whichever of IoU filter, NMS, edge rejection
\* and re-ranking are enabled.
C2_LogitsLockstep ==
    pc = "done" =>
        \A i \in 1 .. Len(result) :
            result[i].low_res_logits_base64 # NoLogits =>
                result[i].low_res_logits_base64.src = result[i].mask_base64.src

PerMaskDone ==
    pc \in {"per_mask_done", "non_overlap_done", "bboxes_done", "ranked", "built", "done"}

\* C6: every mask leaving the per-mask stage has shape (image height, image
\* width), whatever shape the model gave it and whichever of precision mode,
\* drawing mode, generic cleanup and box constraint are enabled.
C6_ImageShape ==
    PerMaskDone =>
        \A i \in 1 .. Len(masks) :
            /\ masks[i].h = cfg.img_height
            /\ masks[i].w = cfg.img_width
            /\ masks[i].px \subseteq Pixels(cfg.img_height, cfg.img_width)

\* a mask the model returned in another shape has been through drawing-mode
\* cleanup and the box constraint and has foreground left
C6_Witness ==
    /\ pc = "per_mask_done"
    /\ ~cfg.enable_precision_mode /\ cfg.enable_drawing_mode /\ cfg.enable_box_constraint
    /\ \E i \in 1 .. Len(masks) :
          /\ masks[i].raw # <<cfg.img_height, cfg.img_width>>
          /\ masks[i].px # {}

(***************************************************************************)
(* SpecRank: sort_masks_by_combined_score on a circle mask with confidence *)
(* 0.95 and a star mask with confidence 0.85, in either input order, with  *)
(* complexity_weight 0.5 and no component bonus, over a range of           *)
(* complexity values of the two masks (in tenths; 120 is above the clamp). *)
(***************************************************************************)
RankComplexities == {20, 35, 45, 50, 55, 60, 80, 100, 120}

RankMask(shape, complexity) ==
    [shape |-> shape, area |-> 4, complexity |-> complexity, components |-> 1]

InitRank ==
    /\ pc = "input"
    /\ cfg = [complexity_weight |-> 5, component_bonus |-> 0, largest_first |-> TRUE]
    /\ \E cc \in RankComplexities, sc \in RankComplexities, star_first \in BOOLEAN :
          /\ masks = Tagged(IF star_first
                            THEN <<RankMask("star", sc), RankMask("circle", cc)>>
                            ELSE <<RankMask("circle", cc), RankMask("star", sc)>>)
          /\ iou_scores = Tagged(IF star_first THEN <<85, 95>> ELSE <<95, 85>>)
    /\ bboxes = Tagged(<<<<0, 0, 1, 1>>, <<0, 0, 2, 2>>>>)
    /\ low_res_logits = NoList
    /\ result = None

NextRank == SortCombined

SpecRank == InitRank /\ [][NextRank]_vars

\* position of the mask of the given shape in a list of two
RankOf(list, shape) == CHOOSE k \in 1 .. 2 : list[k].v.shape = shape

StarAboveCircle == RankOf(result.masks, "star") < RankOf(result.masks, "circle")

\* normalized complexity of the star minus that of the circle, in hundredths
NormalizedGap ==
    Min(masks[RankOf(masks, "star")].v.complexity, 100)
        - Min(masks[RankOf(masks, "circle")].v.complexity, 100)

\* C11 as stated: the star is ranked above the circle iff its normalized
\* complexity exceeds the circle's by more than 0.2.
C11_StarAboveIffGapOver20 ==
    pc = "sorted_combined" => (StarAboveCircle <=> NormalizedGap > 20)

\* C11 amended: the star is ranked above the circle iff its normalized
\* complexity exceeds the circle's by more than 0.1, which is the confidence
\* gap times (1 - w) / w; at exactly 0.1 the combined scores are equal and the
\* stable sort keeps the input order.
C11_StarAboveIffGapOver10 ==
    pc = "sorted_combined" =>
        (StarAboveCircle <=>
            \/ NormalizedGap > 10
            \/ NormalizedGap = 10 /\ RankOf(masks, "star") < RankOf(masks, "circle"))

\* the star was listed after the circle and overtakes it with a gap of 0.15
C11_Witness ==
    /\ pc = "sorted_combined"
    /\ RankOf(masks, "circle") < RankOf(masks, "star")
    /\ NormalizedGap = 15
    /\ StarAboveCircle

(***************************************************************************)
(* SpecSmallArea: postprocess_mask_for_drawings on the masks whose         *)
(* foreground is below the minimum area ratio, here a quarter of the       *)
(* image, under every configuration with that ratio.                       *)
(***************************************************************************)
SmallAreaRatio == <<1, 4>>

BelowRatio(px, h, w, ratio) == Area(px) * ratio[2] < h * w * ratio[1]

InitSmallArea ==
    /\ pc = "input"
    /\ cfg \in {c \in DrawingConfigs : c.min_area_ratio = SmallAreaRatio}
    /\ \E px \in {m \in SUBSET Pixels(ImgH, ImgW) : BelowRatio(m, ImgH, ImgW, SmallAreaRatio)} :
          masks = <<px>>
    /\ iou_scores = <<>>
    /\ bboxes = <<>>
    /\ low_res_logits = NoList
    /\ result = <<>>

NextSmallArea == PostprocessForDrawings

SpecSmallArea == InitSmallArea /\ [][NextSmallArea]_vars

\* C12 as stated: every input below the minimum area ratio comes back
\* all-false, whatever its arrangement and whichever fill method is selected.
C12_SmallInputRejected ==
    pc = "once" => result[1] = {}

\* C12 amended: the guard measures the foreground left after fill,
\* keep-largest and closing.  A returned mask is all-false or reaches the
\* minimum area ratio, and an input below the ratio comes back all-false
\* whenever no step has added foreground to it.
C12_FinalAreaRejected ==
    pc = "once" =>
        /\ result[1] = {} \/ ~BelowRatio(result[1], ImgH, ImgW, cfg.min_area_ratio)
        /\ result[1] \subseteq masks[1] => result[1] = {}

\* a non-empty input has been filled and smoothed and is then rejected
C12_Witness ==
    /\ pc = "once"
    /\ masks[1] # {}
    /\ cfg.fill_holes /\ cfg.apply_morphology
    /\ result[1] = {}

(***************************************************************************)
(* _fill_with_box on its own: a square image of side BoxImgSide, boxes     *)
(* whose corners lie inside, across and outside the image, and three       *)
(* margin ratios.  The input mask is empty or full; only its shape is read.*)
(***************************************************************************)
BoxImgSide == 100

BoxXs == {-30, -20, 10, 50, 120}

BoxYs == {-30, 10, 50}

BoxFillBoxes == {<<x1, y1, x2, y2>> : x1 \in BoxXs, y1 \in BoxYs, x2 \in BoxXs, y2 \in BoxYs}

BoxFillMargins == {<<2, 100>>, <<1, 4>>, <<1, 2>>}

InitBoxFill ==
    /\ pc = "input"
    /\ cfg \in [box : BoxFillBoxes, margin_ratio : BoxFillMargins]
    /\ masks \in {<<{}>>, <<Pixels(BoxImgSide, BoxImgSide)>>}
    /\ iou_scores = <<>>
    /\ bboxes = <<>>
    /\ low_res_logits = NoList
    /\ result = None

FillWithBox ==
    /\ pc = "input"
    /\ pc' = "filled"
    /\ result' = fill_with_box(BoxImgSide, BoxImgSide, cfg.box, cfg.margin_ratio)
    /\ UNCHANGED <<cfg, masks, iou_scores, bboxes, low_res_logits>>

NextBoxFill == FillWithBox

SpecBoxFill == InitBoxFill /\ [][NextBoxFill]_vars

\* the box widened on each side by int(side * margin_ratio) and clamped to
\* the image, as a set of pixels
WidenedClamped(h, w, box, margin_ratio) ==
    LET margin_x == IntOfProduct(box[3] - box[1], margin_ratio)
        margin_y == IntOfProduct(box[4] - box[2], margin_ratio)
    IN  Rectangle(Max(0, box[1] - margin_x), Max(0, box[2] - margin_y),
                  Min(w, box[3] + margin_x), Min(h, box[4] + margin_y))

\* C13: the result is exactly the solid rectangle of the widened box clamped
\* to the image, whatever the input mask holds; for the box (10, 10, 50, 50)
\* whose widened rectangle stays inside the image the foreground count is
\* (40 + 2 * margin) squared.
C13_SolidClampedRectangle ==
    pc = "filled" =>
        /\ result = WidenedClamped(BoxImgSide, BoxImgSide, cfg.box, cfg.margin_ratio)
        /\ cfg.box = <<10, 10, 50, 50>> /\ IntOfProduct(40, cfg.margin_ratio) <= 10 =>
               Area(result) = (40 + 2 * IntOfProduct(40, cfg.margin_ratio)) * (40 + 2 * IntOfProduct(40, cfg.margin_ratio))

(***************************************************************************)
(* Equal boxes under apply_nms_to_masks (SpecNms).  A box is the inclusive *)
(* pixel extent (x_min, y_min, x_max, y_max) of its mask, so a mask one    *)
(* pixel wide or high has a box of area zero.                              *)
(***************************************************************************)
AllBoxesEqual == \A a, b \in 1 .. Len(bboxes) : bboxes[a] = bboxes[b]

ScoresDistinct == \A a, b \in 1 .. Len(iou_scores) : a # b => iou_scores[a] # iou_scores[b]

Best == CHOOSE a \in 1 .. Len(iou_scores) : \A b \in 1 .. Len(iou_scores) : iou_scores[b] <= iou_scores[a]

\* C14: candidates with all-equal boxes and distinct scores, threshold below
\* 1: exactly one candidate survives, the highest-scoring one, with its own
\* mask and box.
C14_EqualBoxesOneSurvivor ==
    (pc = "nms" /\ Len(masks) >= 1 /\ AllBoxesEqual /\ ScoresDistinct) =>
        /\ Len(result.masks) = 1
        /\ result.masks = <<masks[Best]>>
        /\ result.scores = <<iou_scores[Best]>>
        /\ result.boxes = <<bboxes[Best]>>

(***************************************************************************)
(* multimask_output in the pipeline (Spec)                                 *)
(***************************************************************************)
\* C15: for a request with multimask_output the NMS step removes no candidate
\* and the non-overlap step removes no pixel, whatever the two switches say.
C15_MultimaskPreserved ==
    [][cfg.multimask_output =>
          /\ pc = "iou_filtered" =>
                 <<masks', iou_scores', bboxes'>> = <<masks, iou_scores, bboxes>>
          /\ pc = "per_mask_done" => masks' = masks]_vars

\* both steps are enabled for a multimask request and have been passed by two
\* candidates with one box of positive area and a shared pixel
C15_Witness ==
    /\ pc = "non_overlap_done"
    /\ cfg.multimask_output /\ cfg.enable_nms /\ cfg.enable_non_overlapping
    /\ Len(masks) = 2
    /\ bboxes[1] = bboxes[2] /\ BoxArea(bboxes[1]) > 0
    /\ masks[1].px \cap masks[2].px # {}

(***************************************************************************)
(* The bounding boxes of the response (Spec)                               *)
(***************************************************************************)
\* C16: every candidate of the response carries the box of the foreground of
\* the mask returned with it: (min x, min y, max x, max y) over its
\* foreground pixels, (0, 0, 0, 0) for an empty mask, through cleanup, box
\* constraint, resize, non-overlap and re-ranking.
C16_BboxOfReturnedMask ==
    pc \in {"built", "done"} =>
        \A i \in 1 .. Len(result) :
            LET px == result[i].mask_base64.px
                b  == result[i].bbox
            IN  IF px = {} THEN b = <<0, 0, 0, 0>>
                ELSE /\ \A p \in px : b[1] <= p[2] /\ p[2] <= b[3] /\ b[2] <= p[1] /\ p[1] <= b[4]
                     /\ \E p \in px : p[2] = b[1]
                     /\ \E p \in px : p[2] = b[3]
                     /\ \E p \in px : p[1] = b[2]
                     /\ \E p \in px : p[1] = b[4]

\* the response lists the model's second candidate first; non-overlap has
\* taken every pixel of the other candidate, which is returned empty
C16_Witness ==
    /\ pc = "done"
    /\ Len(result) = 2
    /\ cfg.enable_non_overlapping /\ ~cfg.multimask_output
    /\ result[1].mask_base64.src = 2
    /\ result[1].mask_base64.px # {}
    /\ result[2].mask_base64.px = {}
    /\ result[2].bbox = <<0, 0, 0, 0>>

(***************************************************************************)
(* Malformed masks at the five entry points.  An array is its shape and    *)
(* the set of its non-zero positions (index tuples, one index per axis);   *)
(* Absent is Python's None.  dtype and object identity are left out: a     *)
(* returned array equals the input when shape and foreground agree.  A     *)
(* call ends by returning an array or by raising.                          *)
(*                                                                         *)
(* cv2 reads an array of shape (n,) as an n x 1 image and an array of      *)
(* shape (a, b, c) as an a x b image of c channels;                        *)
(* connectedComponentsWithStats rejects an image of several channels,      *)
(* morphologyEx works on each channel.                                     *)
(***************************************************************************)
Absent == [absent |-> TRUE, shape |-> <<>>, px |-> {}]

Arr(shape, px) == [absent |-> FALSE, shape |-> shape, px |-> px]

Returned(value) == [raised |-> FALSE, error |-> "", value |-> value]

Raised(error) == [raised |-> TRUE, error |-> error, value |-> Absent]

RECURSIVE Indices(_)
Indices(shape) ==
    IF shape = <<>> THEN {<<>>}
    ELSE {<<i>> \o t : i \in 0 .. shape[1] - 1, t \in Indices(Tail(shape))}

RECURSIVE Size(_)
Size(shape) == IF shape = <<>> THEN 1 ELSE shape[1] * Size(Tail(shape))

\* mask.squeeze(): the axes of length 1 are dropped
squeeze(m) ==
    LET kept == KeptIndices([k \in 1 .. Len(m.shape) |-> m.shape[k] # 1], 1, <<>>)
    IN  Arr(Reorder(m.shape, kept), {Reorder(p, kept) : p \in m.px})

\* the image of one channel of an array of shape (a, b, c)
Channel(px, ch) == {<<p[1], p[2]>> : p \in {q \in px : q[3] = ch}}

\* cv2.morphologyEx(processed, cv2.MORPH_CLOSE, kernel) on shape (a, b, c)
CloseChannels(m, k) ==
    Arr(m.shape, UNION {{<<p[1], p[2], ch>> : p \in morph_close(Channel(m.px, ch), m.shape[1], m.shape[2], k)} :
                          ch \in 0 .. m.shape[3] - 1})

postprocess_mask_entry(m, c) ==
    IF m.absent \/ Size(m.shape) = 0 THEN Returned(m)
    ELSE IF Len(squeeze(m).shape) # 2 /\ Len(m.shape) > 2 THEN Returned(squeeze(m))
    ELSE IF Len(m.shape) < 2 THEN Returned(m)
    ELSE Returned(Arr(squeeze(m).shape,
                      postprocess_mask(squeeze(m).px, squeeze(m).shape[1], squeeze(m).shape[2], c)))

constrain_mask_to_box_entry(m, c) ==
    IF m.absent \/ Size(m.shape) = 0 THEN Returned(m)
    ELSE IF Len(squeeze(m).shape) # 2 /\ Len(m.shape) > 2 THEN Returned(squeeze(m))
    ELSE IF Len(m.shape) < 2 THEN Returned(m)
    ELSE Returned(Arr(squeeze(m).shape,
                      constrain_mask_to_box(squeeze(m).px, squeeze(m).shape[1], squeeze(m).shape[2],
                                            c.box, c.margin_ratio)))

\* on shapes of up to three axes
keep_largest_component_entry(m) ==
    IF m.absent \/ Size(m.shape) = 0 THEN Returned(m)
    ELSE IF ~OpenCVAvailable THEN Returned(m)
    ELSE IF Len(m.shape) = 2 THEN Returned(Arr(m.shape, keep_largest_component(m.px)))
    ELSE IF Len(m.shape) = 1
    THEN \* labels has shape (n, 1), result has shape (n,)
         IF m.px = {} THEN Returned(m) ELSE Raised("IndexError")
    ELSE IF m.shape[3] # 1 THEN Raised("cv2.error")
    ELSE Returned(Arr(m.shape, {p \in m.px : <<p[1], p[2]>> \in keep_largest_component(Channel(m.px, 0))}))

\* h, w = mask_uint8.shape opens both fill helpers
fill_all_holes_entry(m, c) ==
    IF m.absent \/ Size(m.shape) = 0 THEN Returned(m)
    ELSE IF ~OpenCVAvailable THEN Returned(m)
    ELSE IF Len(m.shape) # 2 THEN Raised("ValueError")
    ELSE Returned(Arr(m.shape, fill_all_holes(m.px, m.shape[1], m.shape[2], c.use_convex_hull)))

\* the steps after the fill on an array of three axes
DrawingsAfterFill(kept, c) ==
    IF kept.raised THEN kept
    ELSE IF Area((IF c.apply_morphology /\ c.morphology_kernel > 0
                  THEN CloseChannels(kept.value, c.morphology_kernel)
                  ELSE kept.value).px) * c.min_area_ratio[2]
            < kept.value.shape[1] * kept.value.shape[2] * c.min_area_ratio[1]
    THEN Returned(Arr(kept.value.shape, {}))
    ELSE Returned(IF c.apply_morphology /\ c.morphology_kernel > 0
                  THEN CloseChannels(kept.value, c.morphology_kernel)
                  ELSE kept.value)

\* on shapes of up to three axes
postprocess_mask_for_drawings_entry(m, c) ==
    IF m.absent \/ Size(m.shape) = 0 THEN Returned(m)
    ELSE IF ~OpenCVAvailable THEN Returned(m)
    ELSE IF Len(m.shape) = 1 THEN Raised("IndexError")
    ELSE IF m.px = {} THEN Returned(m)
    ELSE IF Len(m.shape) = 2
    THEN Returned(Arr(m.shape, postprocess_mask_for_drawings(m.px, m.shape[1], m.shape[2], c)))
    ELSE IF c.fill_holes THEN Raised("ValueError")
    ELSE DrawingsAfterFill(IF c.keep_largest /\ c.fill_method # "box_fill"
                           THEN keep_largest_component_entry(m)
                           ELSE Returned(m), c)

(***************************************************************************)
(* SpecMalformed: one call of an entry point on a malformed mask.          *)
(***************************************************************************)
MalformedShapes == {<<0, 3>>, <<3>>, <<1, 2, 2>>, <<2, 2, 2>>}

MalformedMasks ==
    {Absent} \cup UNION {{Arr(shape, px) : px \in SUBSET Indices(shape)} : shape \in MalformedShapes}

GenericCalls ==
    [ min_component_area : {2}, fill_holes : {TRUE}, max_hole_area : {1},
      apply_morphology : BOOLEAN, kernel_size : {1, 3} ]

DrawingCalls ==
    {c \in DrawingConfigs : c.min_area_ratio = <<1, 1000>> /\ c.morphology_fill_kernel = 3}

InitMalformed ==
    /\ pc = "input"
    /\ \E m \in MalformedMasks : masks = <<m>>
    /\ \/ \E c \in GenericCalls : cfg = [fn |-> "postprocess_mask", args |-> c]
       \/ \E c \in DrawingCalls : cfg = [fn |-> "postprocess_mask_for_drawings", args |-> c]
       \/ cfg = [fn |-> "keep_largest_component", args |-> <<>>]
       \/ \E h \in BOOLEAN : cfg = [fn |-> "fill_all_holes", args |-> [use_convex_hull |-> h]]
       \/ cfg = [fn |-> "constrain_mask_to_box",
                 args |-> [box |-> <<0, 0, 2, 2>>, margin_ratio |-> <<1, 10>>]]
    /\ iou_scores = <<>>
    /\ bboxes = <<>>
    /\ low_res_logits = NoList
    /\ result = None

Called(outcome) ==
    /\ pc = "input"
    /\ pc' = "called"
    /\ result' = outcome
    /\ UNCHANGED <<cfg, masks, iou_scores, bboxes, low_res_logits>>

CallPostprocessMask ==
    cfg.fn = "postprocess_mask" /\ Called(postprocess_mask_entry(masks[1], cfg.args))

CallPostprocessMaskForDrawings ==
    cfg.fn = "postprocess_mask_for_drawings"
        /\ Called(postprocess_mask_for_drawings_entry(masks[1], cfg.args))

CallKeepLargestComponent ==
    cfg.fn = "keep_largest_component" /\ Called(keep_largest_component_entry(masks[1]))

CallFillAllHoles ==
    cfg.fn = "fill_all_holes" /\ Called(fill_all_holes_entry(masks[1], cfg.args))

CallConstrainMaskToBox ==
    cfg.fn = "constrain_mask_to_box" /\ Called(constrain_mask_to_box_entry(masks[1], cfg.args))

NextMalformed ==
    \/ CallPostprocessMask
    \/ CallPostprocessMaskForDrawings
    \/ CallKeepLargestComponent
    \/ CallFillAllHoles
    \/ CallConstrainMaskToBox

SpecMalformed == InitMalformed /\ [][NextMalformed]_vars

\* C17: given an absent mask, a mask of size 0 or a mask that is not
\* two-dimensional, each of the five entry points returns, without raising,
\* the mask it was given.
C17_MalformedReturnedUnchanged ==
    pc = "called" => ~result.raised /\ result.value = masks[1]

(***************************************************************************)
(* SpecEdge: filter_edge_masks on lists of up to MaxCand candidates over   *)
(* an image of EdgeShape = (height, width), with tolerance 0 or 1.  A mask *)
(* is empty, one pixel, or one of three masks of several pixels; score and *)
(* box of candidate k are tags of k.                                       *)
(***************************************************************************)
EdgeShape == <<5, 6>>

EdgeTolerances == {0, 1}

EdgeMasks ==
    {{}} \cup {{p} : p \in Pixels(EdgeShape[1], EdgeShape[2])}
         \cup {{<<2, 2>>, <<2, 3>>}, {<<1, 1>>, <<3, 4>>}, {<<2, 1>>, <<1, 2>>, <<3, 3>>}}

InitEdge ==
    /\ pc = "input"
    /\ \E t \in EdgeTolerances :
          cfg = [img_height |-> EdgeShape[1], img_width |-> EdgeShape[2], edge_tolerance_pixels |-> t]
    /\ \E n \in 0 .. MaxCand : \E pxs \in [1 .. n -> EdgeMasks] :
          /\ masks = [k \in 1 .. n |-> [src |-> k, px |-> pxs[k]]]
          /\ iou_scores = [k \in 1 .. n |-> 10 * k]
          /\ bboxes = [k \in 1 .. n |-> <<k, k, k, k>>]
    /\ low_res_logits = NoList
    /\ result = None

FilterEdgeMasks ==
    /\ pc = "input"
    /\ pc' = "edge"
    /\ result' = filter_edge_masks(masks, iou_scores, bboxes, cfg.img_height, cfg.img_width,
                                   cfg.edge_tolerance_pixels)
    /\ UNCHANGED <<cfg, masks, iou_scores, bboxes, low_res_logits>>

NextEdge == FilterEdgeMasks

SpecEdge == InitEdge /\ [][NextEdge]_vars

\* some foreground pixel lies within the tolerance of a border, which is the
\* bounding box test x_min <= tol, y_min <= tol, x_max >= width - tol - 1 or
\* y_max >= height - tol - 1
NearBorder(px, h, w, tol) ==
    \E p \in px : p[2] <= tol \/ p[1] <= tol \/ p[2] >= w - tol - 1 \/ p[1] >= h - tol - 1

\* C18: filter_edge_masks drops exactly the candidates whose foreground
\* bounding box is within the tolerance of a border and keeps the others in
\* their original order, each with its own score and box.
C18_EdgeFilterExact ==
    pc = "edge" =>
        /\ Len(result.scores) = Len(result.masks) /\ Len(result.boxes) = Len(result.masks)
        /\ {result.masks[j].src : j \in 1 .. Len(result.masks)} =
               {k \in 1 .. Len(masks) :
                    ~NearBorder(masks[k].px, cfg.img_height, cfg.img_width, cfg.edge_tolerance_pixels)}
        /\ \A i, j \in 1 .. Len(result.masks) :
               i < j => result.masks[i].src < result.masks[j].src
        /\ \A j \in 1 .. Len(result.masks) :
               /\ result.masks[j] = masks[result.masks[j].src]
               /\ result.scores[j] = iou_scores[result.masks[j].src]
               /\ result.boxes[j] = bboxes[result.masks[j].src]

\* at tolerance 1 the first candidate is dropped for a pixel in the column
\* next to the right border, the second is kept
C18_Witness ==
    /\ pc = "edge"
    /\ cfg.edge_tolerance_pixels = 1
    /\ Len(masks) = 2
    /\ masks[1].px = {<<2, 4>>}
    /\ masks[2].px = {<<2, 2>>, <<2, 3>>}
    /\ result.scores = <<20>>

(***************************************************************************)
(* SpecIouFilter: filter_masks_by_iou on lists of up to MaxSetCand         *)
(* candidates.  Scores and minimum are in hundredths; mask and box of      *)
(* candidate k are tags of k.                                              *)
(***************************************************************************)
IouFilterScores == {30, 49, 50, 51, 90}

IouFilterMinimums == {50, 70}

InitIouFilter ==
    /\ pc = "input"
    /\ \E m \in IouFilterMinimums : cfg = [min_iou_score |-> m]
    /\ \E n \in 0 .. MaxSetCand :
          /\ masks = [k \in 1 .. n |-> [src |-> k]]
          /\ iou_scores \in [1 .. n -> IouFilterScores]
          /\ bboxes = [k \in 1 .. n |-> <<k, k, k, k>>]
    /\ low_res_logits = NoList
    /\ result = None

FilterMasksByIou ==
    /\ pc = "input"
    /\ pc' = "iou"
    /\ result' = filter_masks_by_iou(masks, iou_scores, bboxes, cfg.min_iou_score)
    /\ UNCHANGED <<cfg, masks, iou_scores, bboxes, low_res_logits>>

NextIouFilter == FilterMasksByIou

SpecIouFilter == InitIouFilter /\ [][NextIouFilter]_vars

\* C19: filter_masks_by_iou keeps exactly the candidates with score >= the
\* minimum, in their original order, each with its own mask and box; with
\* every candidate below the minimum the three lists come back empty.
C19_IouFilterExact ==
    pc = "iou" =>
        /\ Len(result.scores) = Len(result.masks) /\ Len(result.boxes) = Len(result.masks)
        /\ {result.masks[j].src : j \in 1 .. Len(result.masks)} =
               {k \in 1 .. Len(masks) : ~(iou_scores[k] < cfg.min_iou_score)}
        /\ \A i, j \in 1 .. Len(result.masks) :
               i < j => result.masks[i].src < result.masks[j].src
        /\ \A j \in 1 .. Len(result.masks) :
               /\ result.masks[j] = masks[result.masks[j].src]
               /\ result.scores[j] = iou_scores[result.masks[j].src]
               /\ result.boxes[j] = bboxes[result.masks[j].src]
        /\ (\A k \in 1 .. Len(masks) : iou_scores[k] < cfg.min_iou_score) =>
               result = Triple(<<>>, <<>>, <<>>)

\* a candidate below the minimum is dropped between one at the minimum and
\* one above it, both kept
C19_Witness ==
    /\ pc = "iou"
    /\ cfg.min_iou_score = 50
    /\ iou_scores = <<50, 49, 90>>
    /\ result.scores = <<50, 90>>
    /\ result.boxes = <<<<1, 1, 1, 1>>, <<3, 3, 3, 3>>>>

(***************************************************************************)
(* Stability.  A logits array is the sequence of its values (its shape is  *)
(* not read), NoLogitsArray is None, the empty sequence an array of size   *)
(* 0.  A stability score is the pair <<intersection, union>> of the        *)
(* division intersection / union, and <<0, 1>> for 0.0; a threshold is a   *)
(* ratio.  The offset is not negative.                                     *)
(***************************************************************************)
NoLogitsArray == [absent |-> TRUE, v |-> <<>>]

LogitsArray(v) == [absent |-> FALSE, v |-> v]

\* np.sum(mask_logits > thresh)
CountAbove(v, thresh) == Cardinality({i \in 1 .. Len(v) : v[i] > thresh})

\* mutant: a logit equal to a threshold counts as above it
compute_stability_score_Inclusive(mask_logits, mask_threshold, stability_score_offset) ==
    IF mask_logits.absent \/ Len(mask_logits.v) = 0 THEN <<0, 1>>
    ELSE LET intersection == CountAbove(mask_logits.v, mask_threshold + stability_score_offset - 1)
             union == CountAbove(mask_logits.v, mask_threshold - stability_score_offset - 1)
         IN  IF union = 0 THEN <<0, 1>> ELSE <<intersection, union>>

compute_stability_score(mask_logits, mask_threshold, stability_score_offset) ==
    IF mask_logits.absent \/ Len(mask_logits.v) = 0 THEN <<0, 1>>
    ELSE LET high_thresh == mask_threshold + stability_score_offset
             intersection == CountAbove(mask_logits.v, high_thresh)
             low_thresh == mask_threshold - stability_score_offset
             union == CountAbove(mask_logits.v, low_thresh)
         IN  IF union = 0 THEN <<0, 1>> ELSE <<intersection, union>>

\* stability >= stability_thresh
AtLeast(stability, stability_thresh) ==
    stability[1] * stability_thresh[2] >= stability_thresh[1] * stability[2]

\* mutant: lists of different lengths are filtered as far as zip pairs them
filter_masks_by_stability_NoLengthCheck(ms, mask_logits, scores, boxes, stability_thresh, stability_offset) ==
    IF ~mask_logits.given \/ Len(mask_logits.list) = 0 THEN Triple(ms, scores, boxes)
    ELSE LET kept == KeptIndices(
                         [k \in 1 .. Min(Min(Len(ms), Len(mask_logits.list)), Min(Len(scores), Len(boxes))) |->
                             AtLeast(compute_stability_score(mask_logits.list[k], 0, stability_offset),
                                     stability_thresh)],
                         1, <<>>)
         IN  Triple(Reorder(ms, kept), Reorder(scores, kept), Reorder(boxes, kept))

filter_masks_by_stability(ms, mask_logits, scores, boxes, stability_thresh, stability_offset) ==
    IF ~mask_logits.given \/ Len(mask_logits.list) = 0 THEN Triple(ms, scores, boxes)
    ELSE IF Len(ms) # Len(mask_logits.list) THEN Triple(ms, scores, boxes)
    ELSE LET kept == KeptIndices(
                         [k \in 1 .. Min(Len(ms), Min(Len(scores), Len(boxes))) |->
                             AtLeast(compute_stability_score(mask_logits.list[k], 0, stability_offset),
                                     stability_thresh)],
                         1, <<>>)
         IN  Triple(Reorder(ms, kept), Reorder(scores, kept), Reorder(boxes, kept))

(***************************************************************************)
(* SpecStability: compute_stability_score on the first logits array, or    *)
(* filter_masks_by_stability on the lists, for up to MaxCand candidates    *)
(* with logits absent, of one length with the masks, or one longer.        *)
(***************************************************************************)
LogitValues == {-2, -1, 0, 1, 2}

LogitsArrays ==
    {NoLogitsArray, LogitsArray(<<>>)} \cup {LogitsArray(<<a, b>>) : a \in LogitValues, b \in LogitValues}

StabilityThresholds == {<<95, 100>>, <<1, 2>>}

StabilityOffsets == {0, 1}

MaskThresholds == {0, 1}

InitStability ==
    /\ pc = "input"
    /\ cfg \in [stability_score_thresh : StabilityThresholds,
                stability_score_offset : StabilityOffsets,
                mask_threshold : MaskThresholds]
    /\ \E n \in 0 .. MaxCand :
          /\ masks = [k \in 1 .. n |-> [src |-> k]]
          /\ iou_scores = [k \in 1 .. n |-> 10 * k]
          /\ bboxes = [k \in 1 .. n |-> <<k, k, k, k>>]
          /\ \/ low_res_logits = NoList
             \/ \E l \in [1 .. n -> LogitsArrays] : low_res_logits = Given(l)
             \/ \E l \in [1 .. n + 1 -> {LogitsArray(<<-2, -2>>), LogitsArray(<<2, 2>>)}] :
                   low_res_logits = Given(l)
             \/ low_res_logits = Given(<<>>)
    /\ result = None

ComputeStabilityScore ==
    /\ pc = "input"
    /\ low_res_logits.given /\ Len(low_res_logits.list) > 0
    /\ pc' = "scored"
    /\ result' = compute_stability_score(low_res_logits.list[1], cfg.mask_threshold,
                                         cfg.stability_score_offset)
    /\ UNCHANGED <<cfg, masks, iou_scores, bboxes, low_res_logits>>

FilterMasksByStability ==
    /\ pc = "input"
    /\ pc' = "filtered"
    /\ result' = filter_masks_by_stability(masks, low_res_logits, iou_scores, bboxes,
                                           cfg.stability_score_thresh, cfg.stability_score_offset)
    /\ UNCHANGED <<cfg, masks, iou_scores, bboxes, low_res_logits>>

NextStability ==
    \/ ComputeStabilityScore
    \/ FilterMasksByStability

SpecStability == InitStability /\ [][NextStability]_vars

\* the logits of candidate k that exceed the bound
Above(k, bound) == {i \in 1 .. Len(low_res_logits.list[k].v) : low_res_logits.list[k].v[i] > bound}

\* the stability of candidate k at threshold 0 is below the configured minimum
Unstable(k) ==
    \/ Above(k, -cfg.stability_score_offset) = {}
    \/ Cardinality(Above(k, cfg.stability_score_offset)) * cfg.stability_score_thresh[2]
           < cfg.stability_score_thresh[1] * Cardinality(Above(k, -cfg.stability_score_offset))

\* C20: compute_stability_score is the count of logits above threshold +
\* offset divided by the count above threshold - offset, 0 when no logit is
\* above the looser threshold, and always in [0, 1];
\* filter_masks_by_stability, given one logits array per candidate, drops a
\* candidate exactly when its value is below the minimum stability.
C20_StabilityRatioAndFilter ==
    /\ pc = "scored" =>
           /\ IF Above(1, cfg.mask_threshold - cfg.stability_score_offset) = {}
              THEN result = <<0, 1>>
              ELSE result = << Cardinality(Above(1, cfg.mask_threshold + cfg.stability_score_offset)),
                               Cardinality(Above(1, cfg.mask_threshold - cfg.stability_score_offset)) >>
           /\ 0 <= result[1] /\ result[1] <= result[2]
    /\ (pc = "filtered" /\ low_res_logits.given /\ Len(low_res_logits.list) = Len(masks)) =>
           /\ Len(result.scores) = Len(result.masks) /\ Len(result.boxes) = Len(result.masks)
           /\ {result.masks[j].src : j \in 1 .. Len(result.masks)} =
                  {k \in 1 .. Len(masks) : ~Unstable(k)}
           /\ \A i, j \in 1 .. Len(result.masks) :
                  i < j => result.masks[i].src < result.masks[j].src
           /\ \A j \in 1 .. Len(result.masks) :
                  /\ result.scores[j] = iou_scores[result.masks[j].src]
                  /\ result.boxes[j] = bboxes[result.masks[j].src]

\* at minimum 1/2 and offset 1 the first candidate, with one of two logits
\* above both thresholds (stability 1/2), is kept and the second, with
\* stability 0 of 1, is dropped
C20_Witness ==
    /\ pc = "filtered"
    /\ cfg.stability_score_thresh = <<1, 2>> /\ cfg.stability_score_offset = 1
    /\ low_res_logits = Given(<<LogitsArray(<<2, 0>>), LogitsArray(<<1, -2>>)>>)
    /\ result.scores = <<10>>

\* C21: with the logits list absent, empty, or of another length than the
\* mask list, filter_masks_by_stability returns masks, scores and boxes as
\* they were given.
C21_StabilitySkipped ==
    (pc = "filtered" /\ (~low_res_logits.given \/ Len(low_res_logits.list) = 0
                            \/ Len(low_res_logits.list) # Len(masks))) =>
        result = Triple(masks, iou_scores, bboxes)

\* three logits arrays for two masks, the first of stability 0, and both
\* candidates are returned
C21_Witness ==
    /\ pc = "filtered"
    /\ Len(masks) = 2
    /\ low_res_logits.given /\ Len(low_res_logits.list) = 3
    /\ low_res_logits.list[1] = LogitsArray(<<-2, -2>>)
    /\ result.scores = <<10, 20>>

(***************************************************************************)
(* The scores of the response (Spec)                                       *)
(***************************************************************************)
\* C22: at every stage the score at a position is the model's confidence
\* score of the candidate whose mask is at that position, and every
\* candidate of the response carries the model's score of its own mask.
C22_ScoresOfOwnCandidate ==
    /\ Len(iou_scores) = Len(masks)
    /\ \A i \in 1 .. Len(masks) : iou_scores[i] = masks[i].model_score
    /\ pc \in {"built", "done"} =>
           \A i \in 1 .. Len(result) :
               \E j \in 1 .. Len(masks) :
                   /\ masks[j].src = result[i].mask_base64.src
                   /\ result[i].iou_score = masks[j].model_score

\* the response lists the model's second candidate (0.95) before its first
\* (0.85), after IoU filtering and non-overlap enforcement
C22_Witness ==
    /\ pc = "done"
    /\ cfg.enable_iou_filtering /\ cfg.enable_non_overlapping /\ ~cfg.multimask_output
    /\ Len(result) = 2
    /\ result[1].mask_base64.src = 2 /\ result[1].iou_score = 95
    /\ result[2].mask_base64.src = 1 /\ result[2].iou_score = 85

(***************************************************************************)
(* SpecPerMask: the three steps of the per-mask loop body (cleanup, box    *)
(* constraint, resize) taken one candidate and one step at a time, in any  *)
(* order of the candidates.  result holds the list the loop was given and  *)
(* the number of steps each candidate has been through.                    *)
(***************************************************************************)
PerMaskSwitches ==
    {f \in PipelineSwitches :
        /\ f.enable_iou_filtering /\ f.enable_nms /\ f.enable_edge_rejection
        /\ f.enable_non_overlapping /\ ~f.multimask_output /\ f.enable_complexity_scoring}

InitPerMask ==
    /\ pc = "edge_done"
    /\ \E f \in PerMaskSwitches : cfg = f @@ PipelineSettings
    /\ \E n \in 0 .. MaxCand : \E cands \in [1 .. n -> RawCandidates] :
          /\ masks = [k \in 1 .. n |->
                        [src |-> k, raw |-> <<cands[k].mask.h, cands[k].mask.w>>,
                         model_score |-> cands[k].score, model_mask |-> cands[k].mask]
                            @@ cands[k].mask]
          /\ iou_scores = [k \in 1 .. n |-> cands[k].score]
          /\ bboxes = [k \in 1 .. n |-> BBoxOf(cands[k].mask.px)]
          /\ low_res_logits = Given(Tagged([k \in 1 .. n |-> "logits"]))
    /\ result = [input |-> masks, steps |-> [k \in 1 .. Len(masks) |-> 0]]

\* mutant: the cleanup reads the first candidate's mask
StepClean_FirstMask(i) ==
    /\ result.steps[i] = 0
    /\ masks' = [masks EXCEPT ![i] = CleanMask(masks[1], cfg)]
    /\ result' = [result EXCEPT !.steps[i] = 1]
    /\ UNCHANGED <<pc, cfg, iou_scores, bboxes, low_res_logits>>

StepClean(i) ==
    /\ result.steps[i] = 0
    /\ masks' = [masks EXCEPT ![i] = CleanMask(masks[i], cfg)]
    /\ result' = [result EXCEPT !.steps[i] = 1]
    /\ UNCHANGED <<pc, cfg, iou_scores, bboxes, low_res_logits>>

StepConstrain(i) ==
    /\ result.steps[i] = 1
    /\ masks' = [masks EXCEPT ![i] = ConstrainMask(masks[i], cfg)]
    /\ result' = [result EXCEPT !.steps[i] = 2]
    /\ UNCHANGED <<pc, cfg, iou_scores, bboxes, low_res_logits>>

StepResize(i) ==
    /\ result.steps[i] = 2
    /\ masks' = [masks EXCEPT ![i] = ResizeMask(masks[i], cfg)]
    /\ result' = [result EXCEPT !.steps[i] = 3]
    /\ UNCHANGED <<pc, cfg, iou_scores, bboxes, low_res_logits>>

NextPerMask ==
    \/ \E i \in 1 .. Len(masks) : StepClean(i)
    \/ \E i \in 1 .. Len(masks) : StepConstrain(i)
    \/ \E i \in 1 .. Len(masks) : StepResize(i)

SpecPerMask == InitPerMask /\ [][NextPerMask]_vars

\* the mask of a candidate after the first steps of the loop body
AfterSteps(mask, steps, c) ==
    IF steps = 0 THEN mask
    ELSE IF steps = 1 THEN CleanMask(mask, c)
    ELSE IF steps = 2 THEN ConstrainMask(CleanMask(mask, c), c)
    ELSE ProcessMask(mask, c)

\* C23: in every order and interleaving of the candidates' cleanup steps the
\* mask of a candidate is what the loop body makes of that candidate's own
\* input mask, so the finished list is the one the loop in list order gives.
C23_CleanupIndependent ==
    /\ \A i \in 1 .. Len(masks) :
           masks[i] = AfterSteps(result.input[i], result.steps[i], cfg)
    /\ (\A i \in 1 .. Len(masks) : result.steps[i] = 3) =>
           masks = [i \in 1 .. Len(masks) |-> ProcessMask(result.input[i], cfg)]

\* the second candidate is finished and changed by drawing-mode cleanup
\* while the first has only been cleaned
C23_Witness ==
    /\ Len(masks) = 2
    /\ result.steps = <<1, 3>>
    /\ cfg.enable_drawing_mode /\ ~cfg.enable_precision_mode
    /\ masks[2].px # result.input[2].px
    /\ masks[1].px # result.input[1].px

(***************************************************************************)
(* The order of the stages (Spec)                                          *)
(***************************************************************************)
\* C24: the stages run in the order IoU filter, NMS, edge rejection, per-mask
\* cleanup of every candidate, non-overlap enforcement, re-ranking; a
\* disabled stage leaves the lists as they are and the others keep their
\* places.
C24_FixedStageOrder ==
    [][/\ pc = "raw" =>
              /\ pc' = "iou_filtered"
              /\ Triple(masks', iou_scores', bboxes') =
                     IF cfg.enable_iou_filtering
                     THEN filter_masks_by_iou(masks, iou_scores, bboxes, cfg.min_iou_score)
                     ELSE Triple(masks, iou_scores, bboxes)
       /\ pc = "iou_filtered" =>
              /\ pc' = "nms_done"
              /\ Triple(masks', iou_scores', bboxes') =
                     IF cfg.enable_nms /\ ~cfg.multimask_output
                     THEN apply_nms_to_masks(masks, iou_scores, bboxes, cfg.nms_iou_threshold)
                     ELSE Triple(masks, iou_scores, bboxes)
       /\ pc = "nms_done" =>
              /\ pc' = "edge_done"
              /\ Triple(masks', iou_scores', bboxes') =
                     IF cfg.enable_edge_rejection
                     THEN filter_edge_masks(masks, iou_scores, bboxes, cfg.img_height,
                                            cfg.img_width, cfg.edge_tolerance_pixels)
                     ELSE Triple(masks, iou_scores, bboxes)
       /\ pc = "edge_done" =>
              /\ pc' = "per_mask_done"
              /\ masks' = [i \in 1 .. Len(masks) |-> ProcessMask(masks[i], cfg)]
              /\ UNCHANGED <<iou_scores, bboxes>>
       /\ pc = "per_mask_done" =>
              /\ pc' = "non_overlap_done"
              /\ [i \in 1 .. Len(masks') |-> masks'[i].px] =
                     IF cfg.enable_non_overlapping /\ ~cfg.multimask_output /\ Len(masks) > 1
                     THEN apply_non_overlapping_constraints(
                              [i \in 1 .. Len(masks) |-> masks[i].px], iou_scores)
                     ELSE [i \in 1 .. Len(masks) |-> masks[i].px]
              /\ UNCHANGED <<iou_scores, bboxes>>
       /\ pc = "non_overlap_done" => pc' = "bboxes_done" /\ UNCHANGED <<masks, iou_scores>>
       /\ pc = "bboxes_done" =>
              /\ pc' = "ranked"
              /\ ~(cfg.enable_precision_mode /\ cfg.enable_complexity_scoring) =>
                     UNCHANGED <<masks, iou_scores, bboxes>>]_vars

\* with edge rejection disabled and the other stages enabled, two candidates
\* have passed every stage and re-ranking has put the second one first
C24_Witness ==
    /\ pc = "ranked"
    /\ cfg.enable_iou_filtering /\ cfg.enable_nms /\ ~cfg.enable_edge_rejection
    /\ cfg.enable_non_overlapping /\ ~cfg.multimask_output
    /\ cfg.enable_precision_mode /\ cfg.enable_complexity_scoring
    /\ Len(masks) = 2
    /\ masks[1].src = 2

(***************************************************************************)
(* Whole-set operations and the per-mask loop (Spec)                       *)
(***************************************************************************)
\* the candidate's mask as the model returned it
RawOf(mask) ==
    [mask EXCEPT !.h = mask.model_mask.h, !.w = mask.model_mask.w,
                 !.px = mask.model_mask.px, !.dtype = mask.model_mask.dtype]

\* the mask has the shape of the cleaned mask and no pixel outside it
Within(mask, cleaned) ==
    /\ mask.h = cleaned.h
    /\ mask.w = cleaned.w
    /\ mask.px \subseteq cleaned.px

\* the mask is the cleaned mask of its candidate, or what non-overlap
\* enforcement has left of it
SeesCleaned(mask, c) == Within(mask, ProcessMask(RawOf(mask), c))

\* C25 as stated: NMS, edge rejection, non-overlap enforcement and ranking
\* each start on masks that per-mask cleanup has finished.
C25_WholeSetAfterCleanup ==
    (\/ pc = "iou_filtered" /\ NmsStageRuns(cfg, Len(masks))
     \/ pc = "nms_done" /\ cfg.enable_edge_rejection
     \/ pc = "per_mask_done"
     \/ pc = "bboxes_done") =>
        \A i \in 1 .. Len(masks) : SeesCleaned(masks[i], cfg)

\* C25 amended: non-overlap enforcement starts on the cleaned mask of every
\* candidate and ranking on what non-overlap left of them; NMS and edge
\* rejection run before the per-mask loop, on the masks as the model
\* returned them.
C25_CleanupBeforeNonOverlapAndRanking ==
    /\ pc = "per_mask_done" =>
           \A i \in 1 .. Len(masks) : masks[i] = ProcessMask(RawOf(masks[i]), cfg)
    /\ pc = "bboxes_done" =>
           \A i \in 1 .. Len(masks) : SeesCleaned(masks[i], cfg)
    /\ pc \in {"iou_filtered", "nms_done"} =>
           \A i \in 1 .. Len(masks) : masks[i] = RawOf(masks[i])

\* non-overlap enforcement is about to run on two candidates, one of which
\* the model returned in another shape and drawing-mode cleanup has changed
C25_Witness ==
    /\ pc = "per_mask_done"
    /\ cfg.enable_non_overlapping /\ ~cfg.multimask_output
    /\ cfg.enable_nms /\ cfg.enable_drawing_mode /\ ~cfg.enable_precision_mode
    /\ Len(masks) = 2
    /\ \E i \in 1 .. 2 : masks[i].raw # <<cfg.img_height, cfg.img_width>> /\ masks[i].px # {}

(***************************************************************************)
(* Components of the drawing-mode result (SpecDrawings)                    *)
(***************************************************************************)
\* C26: with keep_largest enabled, postprocess_mask_for_drawings returns at
\* most one connected foreground component, under every fill configuration.
C26_AtMostOneComponent ==
    (pc = "once" /\ cfg.keep_largest) =>
        Len(connectedComponents(result[1], 8)) <= 1

(***************************************************************************)
(* Flood fill from the corners (SpecPrim)                                  *)
(***************************************************************************)
\* the background pixels joined to a corner through background pixels
ReachedFromCorners(px, h, w) ==
    UNION {ComponentOf(Pixels(h, w) \ px, corner, 4) :
              corner \in {<<0, 0>>, <<0, w - 1>>, <<h - 1, 0>>, <<h - 1, w - 1>>} \ px}

\* C27: the flood-fill variant keeps every foreground pixel and fills a
\* background pixel exactly when no corner reaches it, for every mask,
\* masks with foreground in a corner included.
C27_FloodFillExact ==
    pc = "fill_flood_fill" =>
        result = Pixels(cfg.h, cfg.w) \ ReachedFromCorners(masks[1], cfg.h, cfg.w)

(***************************************************************************)
(* SpecSmallHoles: _fill_small_holes on every binary mask of the image     *)
(* shape, as postprocess_mask calls it (a uint8 mask of 0 and 255).        *)
(***************************************************************************)
MaxHoleAreas == {1, 2}

InitSmallHoles ==
    /\ pc = "input"
    /\ \E max_hole_area \in MaxHoleAreas : cfg = [max_hole_area |-> max_hole_area]
    /\ \E px \in SUBSET Pixels(ImgH, ImgW) : masks = <<px>>
    /\ iou_scores = <<>>
    /\ bboxes = <<>>
    /\ low_res_logits = NoList
    /\ result = {}

FillSmallHoles ==
    /\ pc = "input"
    /\ pc' = "holes_filled"
    /\ result' = _fill_small_holes(masks[1], ImgH, ImgW, cfg.max_hole_area)
    /\ UNCHANGED <<cfg, masks, iou_scores, bboxes, low_res_logits>>

NextSmallHoles == FillSmallHoles

SpecSmallHoles == InitSmallHoles /\ [][NextSmallHoles]_vars

\* C28: a pixel is foreground after _fill_small_holes exactly when it was
\* foreground before, or its connected background component has at most
\* max_hole_area pixels, whether or not that component touches the border;
\* larger components stay background and no foreground pixel is removed.
C28_SmallHolesExact ==
    pc = "holes_filled" =>
        \A p \in Pixels(ImgH, ImgW) :
            p \in result <=>
                \/ p \in masks[1]
                \/ Area(ComponentOf(Pixels(ImgH, ImgW) \ masks[1], p, 8)) <= cfg.max_hole_area

\* a small background component on the border was filled and a larger one,
\* also on the border, was left
C28_Witness ==
    /\ pc = "holes_filled"
    /\ <<0, 0>> \in result \ masks[1]
    /\ <<ImgH - 1, ImgW - 1>> \notin result
    /\ masks[1] # {}

(***************************************************************************)
(* Order of the ranking keys (SpecSort)                                    *)
(***************************************************************************)
\* C29: sort_masks_by_combined_score returns its candidates in non-increasing
\* order of combined score; sort_masks_by_area in non-increasing order of
\* area when largest_first and non-decreasing order otherwise; in both, the
\* key returned at a position is the key of the mask returned there.
C29_KeysOrderedAndAligned ==
    /\ Sorted => Len(result.keys) = Len(result.masks)
    /\ pc = "sorted_combined" =>
          /\ \A k \in 1 .. Len(result.masks) :
                result.keys[k] = compute_combined_score(result.scores[k].v,
                                     result.masks[k].v, cfg.complexity_weight,
                                     cfg.component_bonus)
          /\ \A k \in 1 .. Len(result.keys) - 1 : result.keys[k] >= result.keys[k + 1]
    /\ pc = "sorted_area" =>
          /\ \A k \in 1 .. Len(result.masks) : result.keys[k] = result.masks[k].v.area
          /\ \A k \in 1 .. Len(result.keys) - 1 :
                IF cfg.largest_first
                THEN result.keys[k] >= result.keys[k + 1]
                ELSE result.keys[k] <= result.keys[k + 1]

\* three candidates sorted smallest first, the first input candidate last
C29_Witness ==
    /\ pc = "sorted_area"
    /\ ~cfg.largest_first
    /\ Len(result.masks) = 3
    /\ result.masks[3].src = 1
    /\ result.keys[1] < result.keys[2] /\ result.keys[2] < result.keys[3]

(***************************************************************************)
(* Precision mode (SpecPerMask)                                            *)
(***************************************************************************)
\* C30: with precision mode enabled no cleanup is applied, whatever
\* enable_drawing_mode and enable_mask_postprocessing are: a candidate's mask
\* reaches the box-constraint step, and with no box constraint the resize
\* step, exactly as the model returned it.
C30_PrecisionModeSkipsCleanup ==
    cfg.enable_precision_mode =>
        \A i \in 1 .. Len(masks) :
            /\ result.steps[i] = 1 => masks[i] = RawOf(masks[i])
            /\ (result.steps[i] = 2 /\ ~cfg.enable_box_constraint) =>
                   masks[i] = RawOf(masks[i])

\* precision mode with both cleanups switched on: a candidate is past the
\* cleanup step with a mask that the generic cleanup would have changed
C30_Witness ==
    /\ cfg.enable_precision_mode
    /\ cfg.enable_drawing_mode /\ cfg.enable_mask_postprocessing
    /\ Len(masks) = 2
    /\ result.steps[1] = 1
    /\ masks[1].px # {}
    /\ postprocess_mask(masks[1].px, masks[1].h, masks[1].w, GenericArguments(cfg))
           # masks[1].px

====
